---- MODULE Spec2Model ----
(***************************************************************************)
(* PR Buddy: GitHub webhook ingress (routes/webhooks.js), signature        *)
(* verification, PR-info extraction and event filter                       *)
(* (utils/webhookUtils.js), the PR processing orchestrator                 *)
(* (services/prProcessingService.js and its visibility-guarded snapshot),  *)
(* the AI service (analyzeCode, reviewCode) and the file-selection policy  *)
(* of services/githubService.js.                                           *)
(*                                                                         *)
(* Strings are sequences of character codes, Buffers are sequences of      *)
(* bytes.  JavaScript undefined / null are the tagged values below.        *)
(***************************************************************************)
EXTENDS Integers, Sequences, FiniteSets, TLC

VARIABLES
    webhookSecret,   \* config.github.webhookSecret (config/config.js:9)
    impl,            \* which snapshot of services/prProcessingService.js is deployed
    aiApiKey,        \* config.ai.apiKey (config/config.js:15)
    delivered,       \* number of deliveries handled so far
    req,             \* the delivery handled last
    handled,         \* how the handler dealt with the delivery handled last
    responses,       \* per delivery: the sequence of HTTP responses sent
    immediateQueue,  \* setImmediate callbacks not yet run (delivery ids)
    tasks,           \* per delivery: the processPR invocation it scheduled
    calls,           \* per delivery: outbound calls made by its processPR
    comments,        \* per delivery: what its processPR got posted on the PR
    vIn,             \* verifier harness: the (secret, body, header) under test
    vOut,            \* verifier harness: result of verifyGitHubSignature
    fIn,             \* filter harness: the (eventType, action) under test
    fOut,            \* filter harness: results of the two event filters
    aIn,             \* AI harness: the configuration, file content and completion under test
    aOut,            \* AI harness: results of analyzeCode and reviewCode
    sIn,             \* selection harness: the file list and MAX_FILES_PER_PR under test
    sOut,            \* selection harness: result of filterReviewableFiles
    gIn,             \* rating harness: the per-file ratings under test
    gOut,            \* rating harness: the PR-level rating computed from them
    env,             \* start-up harness: process.env
    proc,            \* start-up harness: how far the server process got
    health,          \* start-up harness: the last answer of GET /webhooks/health
    pIn,             \* parsing harness: the content type and body under test
    pOut,            \* parsing harness: results of parseWebhookPayload
    mIn,             \* prompt harness: the service and the file content under test
    mOut             \* prompt harness: what the prompt embeds of the content

vars == <<webhookSecret, impl, aiApiKey, delivered, req, handled, responses,
          immediateQueue, tasks, calls, comments, vIn, vOut, fIn, fOut, aIn, aOut,
          sIn, sOut, gIn, gOut, env, proc, health, pIn, pOut,
          mIn, mOut>>

ingressVars == <<webhookSecret, impl, aiApiKey, delivered, req, handled, responses,
                 immediateQueue, tasks, calls, comments>>
verifyVars == <<vIn, vOut>>
filterVars == <<fIn, fOut>>
analyzeVars == <<aIn, aOut>>
selectVars == <<sIn, sOut>>
\* the variables of the units examined alone besides the three above
ratingVars == <<gIn, gOut>>
startupVars == <<env, proc, health>>
parseVars == <<pIn, pOut>>
promptVars == <<mIn, mOut>>
unitVars == <<selectVars, ratingVars, startupVars, parseVars, promptVars>>

----------------------------------------------------------------------------
(* Bounds *)

MaxBodyLen == 2      \* longest raw body given to the verifier alone, in bytes
MaxByte == 4         \* those bodies' bytes range over 0..MaxByte
MaxDeliveries == 2   \* webhook deliveries per run
MaxAccepted == 1     \* deliveries accepted for processing per run of the whole server
MaxFiles == 2        \* files returned by a PR file listing
PromptMargin == 12   \* content lengths tried on each side of the prompt limit

----------------------------------------------------------------------------
(* JavaScript values *)

Undefined == [t |-> "undefined", s |-> <<>>]
Null == [t |-> "null", s |-> <<>>]
Str(s) == [t |-> "string", s |-> s]
Buf(b) == [t |-> "buffer", s |-> b]
\* what express.raw leaves in req.body when it did not read a body
EmptyObject == [t |-> "object", s |-> <<>>]

\* JavaScript truthiness of a string-or-absent value: !x is true for
\* undefined, null and ''
Truthy(x) == x.t = "string" /\ x.s # <<>>

RECURSIVE Utf8(_)
\* Buffer.from(string): UTF-8 encoding; a character above 127 takes two bytes
Utf8(s) ==
    IF s = <<>> THEN <<>>
    ELSE LET c == Head(s)
         IN  (IF c < 128 THEN <<c>> ELSE <<192 + (c \div 64), 128 + (c % 64)>>)
             \o Utf8(Tail(s))

\* the bytes hashed by hmac.update(payload, 'utf8')
UpdateBytes(payload) == IF payload.t = "string" THEN Utf8(payload.s) ELSE payload.s

\* '0'..'9' are 48..57, 'a'..'f' are 97..102
HexChar(d) == IF d < 10 THEN 48 + d ELSE 87 + d

\* the characters of 'sha256='
Sha256Prefix == <<115, 104, 97, 50, 53, 54, 61>>

HashSpace == 16 * 16 * 16 * 16

RECURSIVE Rank(_, _)
\* a byte string read as a number in the given base (injective on strings
\* whose bytes are below base - 1)
Rank(b, base) == IF b = <<>> THEN 0 ELSE (Head(b) + 1) + base * Rank(Tail(b), base)

\* crypto.createHmac('sha256', secret).update(payload).digest(): a keyed
\* digest, idealised as collision-free on the bodies of the model
HmacDigest(secret, bytes) ==
    LET key == Rank(secret, 256)
    IN  (Rank(bytes, MaxByte + 2) * (2 * key + 1) + 7 * key) % HashSpace

\* .digest('hex'): lower-case hexadecimal
Hex(h) == << HexChar((h \div (16 * 16 * 16)) % 16), HexChar((h \div (16 * 16)) % 16),
             HexChar((h \div 16) % 16), HexChar(h % 16) >>

\* the header a sender computes for a body (webhook test script)
githubSignature(secret, payloadString) ==
    Sha256Prefix \o Hex(HmacDigest(secret, Utf8(payloadString)))

\* crypto.timingSafeEqual: throws on buffers of different length
timingSafeEqual(a, b) ==
    IF Len(a) # Len(b) THEN "throw" ELSE IF a = b THEN "true" ELSE "false"

verifyNoLengthCheck(secret, payload, signature) ==
    IF ~Truthy(signature) THEN [ret |-> "false", hmac |-> FALSE]
    ELSE IF ~Truthy(secret) THEN [ret |-> "true", hmac |-> FALSE]
    ELSE IF payload.t \notin {"string", "buffer"} THEN [ret |-> "throw", hmac |-> FALSE]
    ELSE LET expectedSignature ==
                 Sha256Prefix \o Hex(HmacDigest(secret.s, UpdateBytes(payload)))
         IN  [ret |-> timingSafeEqual(Utf8(signature.s), Utf8(expectedSignature)),
              hmac |-> TRUE]

verifySecretFirst(secret, payload, signature) ==
    IF ~Truthy(secret) THEN [ret |-> "true", hmac |-> FALSE]
    ELSE IF ~Truthy(signature) THEN [ret |-> "false", hmac |-> FALSE]
    ELSE verifyNoLengthCheck(secret, payload, signature)

verifyAlwaysHmac(secret, payload, signature) ==
    IF ~Truthy(signature) THEN [ret |-> "false", hmac |-> FALSE]
    ELSE IF ~Truthy(secret) THEN [ret |-> "true", hmac |-> TRUE]
    ELSE verifyNoLengthCheck(secret, payload, signature)

\* verifyGitHubSignature(payload, signature) with config.github.webhookSecret
\* = secret.  ret is the value returned, or "throw"; hmac tells whether an
\* HMAC was computed.
verifyGitHubSignature(secret, payload, signature) ==
    IF ~Truthy(signature) THEN [ret |-> "false", hmac |-> FALSE]
    ELSE IF ~Truthy(secret) THEN [ret |-> "true", hmac |-> FALSE]
    ELSE IF payload.t \notin {"string", "buffer"} THEN [ret |-> "throw", hmac |-> FALSE]
    ELSE LET expectedSignature ==
                 Sha256Prefix \o Hex(HmacDigest(secret.s, UpdateBytes(payload)))
             sigBuffer == Utf8(signature.s)
             expectedBuffer == Utf8(expectedSignature)
         IN  IF Len(sigBuffer) # Len(expectedBuffer)
             THEN [ret |-> "false", hmac |-> TRUE]
             ELSE [ret |-> timingSafeEqual(sigBuffer, expectedBuffer), hmac |-> TRUE]

----------------------------------------------------------------------------
(* Harness for the signature verifier: every step calls                    *)
(* verifyGitHubSignature on one (secret, body, header) triple.             *)

Bytes == 0 .. MaxByte

RECURSIVE SeqsUpTo(_, _)
SeqsUpTo(S, n) ==
    IF n = 0 THEN {<<>>}
    ELSE LET shorter == SeqsUpTo(S, n - 1)
         IN  shorter \cup {Append(q, x) : q \in shorter, x \in S}

RawBodies == SeqsUpTo(Bytes, MaxBodyLen)

\* 'k' and 'k2'
ConfiguredSecrets == {Str(<<107>>), Str(<<107, 50>>)}
\* GITHUB_WEBHOOK_SECRET unset, or set to the empty string
NoSecrets == {Undefined, Str(<<>>)}

\* every string that differs from s in exactly one position
Substitutions(s, chars) ==
    {[s EXCEPT ![i] = c] : i \in 1 .. Len(s), c \in chars} \ {s}

\* replacement characters for a header: '0', '=', 'F', and one non-ASCII
\* latin-1 character
HeaderChars == {48, 61, 70, 233}

NoInput == [secret |-> Undefined, body |-> Buf(<<>>), signed |-> <<>>,
            signature |-> Undefined, how |-> "none"]
NoOutput == [ret |-> "none", hmac |-> FALSE]

Input(secret, body, signed, signature, how) ==
    [secret |-> secret, body |-> body, signed |-> signed,
     signature |-> signature, how |-> how]

\* the input under test is one of:
\*  - a body with the header its sender computed for it;
\*  - that header changed in one byte after signing;
\*  - that body changed in one byte after signing;
\*  - no header, with and without a configured secret;
\*  - some header while no secret is configured
DrawVerifyInput ==
    \/ \E secret \in ConfiguredSecrets, b \in RawBodies, asString \in BOOLEAN :
          vIn = Input(secret, IF asString THEN Str(b) ELSE Buf(b), b,
                      Str(githubSignature(secret.s, b)), "exact")
    \/ \E secret \in ConfiguredSecrets, b \in RawBodies :
          \E sig \in Substitutions(githubSignature(secret.s, b), HeaderChars) :
              vIn = Input(secret, Buf(b), b, Str(sig), "signatureMutated")
    \/ \E secret \in ConfiguredSecrets, b \in RawBodies :
          \E mutated \in Substitutions(b, Bytes) :
              vIn = Input(secret, Buf(mutated), b,
                          Str(githubSignature(secret.s, b)), "bodyMutated")
    \/ \E secret \in ConfiguredSecrets \cup NoSecrets,
          body \in {Buf(b) : b \in RawBodies} \cup {EmptyObject},
          signature \in {Undefined, Null, Str(<<>>)} :
          vIn = Input(secret, body, <<>>, signature, "absent")
    \/ \E secret \in NoSecrets,
          body \in {Buf(b) : b \in RawBodies} \cup {EmptyObject},
          sig \in {githubSignature(<<107>>, <<>>), Sha256Prefix, <<48>>, <<233>>} :
          vIn = Input(secret, body, <<>>, Str(sig), "open")

\* one call of verifyGitHubSignature on the input under test
VerifyCall ==
    /\ vOut = NoOutput
    /\ vOut' = verifyGitHubSignature(vIn.secret, vIn.body, vIn.signature)
    /\ UNCHANGED vIn

----------------------------------------------------------------------------
(* Payloads.  A JSON text is a short string of codes: a text of three      *)
(* codes <<a, p, r>> is an object whose action, pull_request and           *)
(* repository members are read off a, p and r; <<0>> is the text 'null',   *)
(* <<1>> a bare number, and every other text is not JSON.                  *)

NoPullRequest == [present |-> FALSE, number |-> 0, head |-> FALSE, base |-> FALSE]
NoRepository == [present |-> FALSE, owner |-> FALSE, name |-> "<undefined>",
                 private |-> "<undefined>"]

ActionOf(a) ==
    CASE a = 0 -> "<undefined>"
      [] a = 1 -> "opened"
      [] a = 2 -> "synchronize"
      [] a = 3 -> "ready_for_review"
      [] a = 4 -> "closed"
      [] OTHER -> "edited"

\* number 0 stands for a pull_request object without a number
PullRequestOf(p) ==
    CASE p = 0 -> NoPullRequest
      [] p = 1 -> [present |-> TRUE, number |-> 1, head |-> TRUE, base |-> TRUE]
      [] p = 2 -> [present |-> TRUE, number |-> 2, head |-> TRUE, base |-> TRUE]
      [] p = 3 -> [present |-> TRUE, number |-> 1, head |-> FALSE, base |-> TRUE]
      [] OTHER -> [present |-> TRUE, number |-> 0, head |-> TRUE, base |-> TRUE]

RepositoryOf(r) ==
    CASE r = 0 -> NoRepository
      [] r = 1 -> [present |-> TRUE, owner |-> TRUE, name |-> "app", private |-> "false"]
      [] r = 2 -> [present |-> TRUE, owner |-> TRUE, name |-> "vault", private |-> "true"]
      [] r = 3 -> [present |-> TRUE, owner |-> TRUE, name |-> "lib", private |-> "<undefined>"]
      [] OTHER -> [present |-> TRUE, owner |-> FALSE, name |-> "app", private |-> "false"]

OwnerLogin == "octo"

\* JSON.parse(text): kind "throw" is a SyntaxError
JSONparse(text) ==
    IF Len(text) = 3 /\ \A i \in 1 .. 3 : text[i] < 128
    THEN [kind |-> "object", action |-> ActionOf(text[1]),
          pull_request |-> PullRequestOf(text[2]), repository |-> RepositoryOf(text[3])]
    ELSE IF text = <<0>>
    THEN [kind |-> "null", action |-> "<undefined>",
          pull_request |-> NoPullRequest, repository |-> NoRepository]
    ELSE IF text = <<1>>
    THEN [kind |-> "number", action |-> "<undefined>",
          pull_request |-> NoPullRequest, repository |-> NoRepository]
    ELSE [kind |-> "throw", action |-> "<undefined>",
          pull_request |-> NoPullRequest, repository |-> NoRepository]

\* req.body.toString(): the text of a Buffer; '[object Object]' (which is
\* not JSON) for the empty object
BodyToString(body) ==
    IF body.t = "buffer" THEN body.s
    ELSE <<91, 111, 98, 106, 101, 99, 116, 32, 79, 98, 106, 101, 99, 116, 93>>

NoPRInfo == [threw |-> TRUE, owner |-> "<undefined>", repo |-> "<undefined>",
             pullNumber |-> 0, action |-> "<undefined>", isPublic |-> FALSE]

\* an extractor that takes a repository for public only when the payload
\* says private: false
extractPRInfoPrivateByDefault(payload) ==
    IF \/ payload.kind = "null"
       \/ ~payload.repository.present
       \/ ~payload.repository.owner
       \/ ~payload.pull_request.present
       \/ ~payload.pull_request.head
       \/ ~payload.pull_request.base
    THEN NoPRInfo
    ELSE [threw |-> FALSE,
          owner |-> OwnerLogin,
          repo |-> payload.repository.name,
          pullNumber |-> payload.pull_request.number,
          action |-> payload.action,
          isPublic |-> payload.repository.private = "false"]

extractPRInfoLenient(payload) ==
    [threw |-> FALSE,
     owner |-> IF payload.repository.owner THEN OwnerLogin ELSE "<undefined>",
     repo |-> payload.repository.name,
     pullNumber |-> payload.pull_request.number,
     action |-> payload.action,
     isPublic |-> payload.repository.private # "true"]

\* extractPRInfo (utils/webhookUtils.js): threw is a TypeError raised by
\* dereferencing a member of undefined or null
extractPRInfo(payload) ==
    IF \/ payload.kind = "null"
       \/ ~payload.repository.present
       \/ ~payload.repository.owner
       \/ ~payload.pull_request.present
       \/ ~payload.pull_request.head
       \/ ~payload.pull_request.base
    THEN NoPRInfo
    ELSE [threw |-> FALSE,
          owner |-> OwnerLogin,
          repo |-> payload.repository.name,
          pullNumber |-> payload.pull_request.number,
          action |-> payload.action,
          isPublic |-> payload.repository.private # "true"]

triggerActions == {"opened", "synchronize", "ready_for_review"}

shouldProcessAnyAction(action) == TRUE

\* a filter that lets creations through and drops updates
shouldProcessOpenedOnly(action) == action = "opened"

\* shouldProcessEvent(action) (utils/webhookUtils.js), the filter the router imports
shouldProcessEvent(action) == action \in triggerActions

legacyTriggerActions == {"opened"}

legacyIgnoresEvent(event, action) == action \in legacyTriggerActions

\* shouldProcessEvent(event, action), the two-parameter filter kept below
\* the router in routes/webhooks.js
legacyShouldProcessEvent(event, action) ==
    IF event # "pull_request" THEN FALSE ELSE action \in legacyTriggerActions

----------------------------------------------------------------------------
(* The AI service.  An answer of the model is a short text of codes: a     *)
(* text of three codes <<r, i, s>> below 32 is a JSON object whose rating, *)
(* issues and suggestions members are read off r, i and s; <<0>> is the    *)
(* text 'null', <<1>> a bare number, <<2>> the text '[]'; code 32 is a     *)
(* space; every other text is prose, not JSON.                             *)

Num(n) == [t |-> "number", s |-> <<n>>]
\* the number 2.5: integer part and tenths
TwoAndAHalf == [t |-> "number", s |-> <<2, 5>>]
Arr(items) == [t |-> "array", s |-> items]

IsInteger(x) == x.t = "number" /\ Len(x.s) = 1

RatingOf(r) ==
    CASE r = 0 -> Undefined
      [] r \in 1 .. 5 -> Num(r)
      [] r = 6 -> Num(9)
      [] r = 7 -> Num(0)
      [] r = 8 -> TwoAndAHalf
      [] OTHER -> Str(<<52>>)

\* the issues member: absent, [], one low issue, one high issue, null, or
\* the string 'none'
IssuesOf(i) ==
    CASE i = 0 -> Undefined
      [] i = 1 -> Arr(<<>>)
      [] i = 2 -> Arr(<<"low">>)
      [] i = 3 -> Arr(<<"high">>)
      [] i = 4 -> Null
      [] OTHER -> Str(<<110, 111, 110, 101>>)

\* one suggestion: a literal of the code, or a text
Literal(l) == [literal |-> l, text |-> <<>>]
Text(s) == [literal |-> "", text |-> s]

SuggestionsOf(s) ==
    CASE s = 0 -> Undefined
      [] s = 1 -> Arr(<<>>)
      [] s = 2 -> Arr(<<Text(<<120>>)>>)
      [] OTHER -> Null

NoAnalysis == [kind |-> "none", rating |-> Undefined, issues |-> Undefined,
               suggestions |-> Undefined]

\* JSON.parse(aiResponse): kind "throw" is a SyntaxError
ParseAnswer(text) ==
    IF Len(text) = 3 /\ \A k \in 1 .. 3 : text[k] < 32
    THEN [kind |-> "object", rating |-> RatingOf(text[1]), issues |-> IssuesOf(text[2]),
          suggestions |-> SuggestionsOf(text[3])]
    ELSE IF text = <<0>> THEN [NoAnalysis EXCEPT !.kind = "null"]
    ELSE IF text = <<1>> THEN [NoAnalysis EXCEPT !.kind = "number"]
    ELSE IF text = <<2>> THEN [NoAnalysis EXCEPT !.kind = "array"]
    ELSE [NoAnalysis EXCEPT !.kind = "throw"]

RECURSIVE TrimStart(_)
TrimStart(s) == IF s # <<>> /\ Head(s) = 32 THEN TrimStart(Tail(s)) ELSE s

RECURSIVE TrimEnd(_)
TrimEnd(s) ==
    IF s # <<>> /\ s[Len(s)] = 32 THEN TrimEnd(SubSeq(s, 1, Len(s) - 1)) ELSE s

\* String.prototype.trim
Trim(s) == TrimEnd(TrimStart(s))

\* s.substring(0, n)
Substring0(s, n) == SubSeq(s, 1, IF Len(s) < n THEN Len(s) ELSE n)

\* the characters of '...'
Ellipsis == <<46, 46, 46>>

\* getFallbackAnalysis(aiResponse = null): aiResponse is null, or a string
\* (the empty string is falsy)
getFallbackAnalysis(aiResponse) ==
    [kind |-> "object",
     rating |-> Num(3),
     issues |-> Arr(<<>>),
     suggestions |-> IF Truthy(aiResponse)
                     THEN Arr(<<Text(Substring0(aiResponse.s, 150) \o Ellipsis)>>)
                     ELSE Arr(<<Literal("AI service temporarily unavailable")>>)]

\* what groq.chat.completions.create does: it rejects, or resolves to a
\* response without choices, or to one whose content is null, or to one
\* whose content is a text
Completion(kind, text) == [kind |-> kind, text |-> text]

\* this.isConfigured of the AIService that analyzeCode belongs to
analyzeConfigured(apiKey) == Truthy(apiKey)

\* result of a call of an AIService method: ret is what the promise
\* resolves to, threw tells that it rejects instead, apiCalls counts the
\* calls of groq.chat.completions.create
Returned(ret, apiCalls) == [threw |-> FALSE, ret |-> ret, apiCalls |-> apiCalls]

analyzeCodeNoCatch(apiKey, completion) ==
    IF ~analyzeConfigured(apiKey) THEN Returned(getFallbackAnalysis(Null), 0)
    ELSE IF completion.kind # "content"
    THEN [threw |-> TRUE, ret |-> NoAnalysis, apiCalls |-> 1]
    ELSE Returned(getFallbackAnalysis(Str(Trim(completion.text))), 1)

analyzeCodeIgnoresKey(apiKey, completion) ==
    IF completion.kind # "content" THEN Returned(getFallbackAnalysis(Null), 1)
    ELSE Returned(getFallbackAnalysis(Str(Trim(completion.text))), 1)

\* analyzeCode(filename, patch): the prompt is a template literal, so any
\* filename and patch (also undefined) give a prompt
analyzeCode(apiKey, completion) ==
    IF ~analyzeConfigured(apiKey) THEN Returned(getFallbackAnalysis(Null), 0)
    ELSE IF completion.kind # "content"
    THEN \* create rejected, or response.choices[0].message.content.trim()
         \* raised a TypeError: the outer catch
         Returned(getFallbackAnalysis(Null), 1)
    ELSE LET aiResponse == Trim(completion.text)
             parsed == ParseAnswer(aiResponse)
         IN  IF parsed.kind = "throw"
             THEN Returned(getFallbackAnalysis(Str(aiResponse)), 1)
             ELSE Returned(parsed, 1)

\* initializeGroq: isConfigured of the AIService that reviewCode belongs to
reviewConfigured(apiKey, provider, constructorThrows) ==
    Truthy(apiKey) /\ provider = "groq" /\ ~constructorThrows

\* reviewCode(filename, fileContent, language): ret names the comment
\* returned (the placeholder review, the review of the model, or the
\* 'AI review failed' comment)
reviewCode(apiKey, provider, constructorThrows, fileContent, completion) ==
    IF ~reviewConfigured(apiKey, provider, constructorThrows)
    THEN \* getPlaceholderReview calls fileContent.split
         IF fileContent.t = "string"
         THEN [threw |-> FALSE, ret |-> "placeholder", apiCalls |-> 0]
         ELSE [threw |-> TRUE, ret |-> "none", apiCalls |-> 0]
    ELSE IF fileContent.t # "string"
    THEN \* buildReviewPrompt reads content.length inside the try
         [threw |-> FALSE, ret |-> "failed", apiCalls |-> 0]
    ELSE IF completion.kind = "content" /\ completion.text # <<>>
    THEN [threw |-> FALSE, ret |-> "review", apiCalls |-> 1]
    ELSE [threw |-> FALSE, ret |-> "failed", apiCalls |-> 1]

\* aiAnalysis.issues.length, read in the loop of processPR, raises a
\* TypeError on this analysis
IssuesLengthThrows(aiAnalysis) ==
    \/ aiAnalysis.kind # "object"
    \/ aiAnalysis.issues.t \in {"undefined", "null"}

\* generateSummaryComment raises a TypeError on this analysis: issues has
\* no filter method, or there are issues and suggestions has no length
SummaryThrows(aiAnalysis) ==
    \/ aiAnalysis.issues.t # "array"
    \/ aiAnalysis.issues.s # <<>> /\ aiAnalysis.suggestions.t \notin {"array", "string"}

----------------------------------------------------------------------------
(* The prompts.  A file content is known by its length alone (length 0 - 1  *)
(* stands for a content that is undefined, as the patch of a file GitHub   *)
(* sends no diff for).                                                     *)

maxContentLength == 8000

\* what a prompt holds of the content: threw when building the prompt
\* raised a TypeError, otherwise the number of leading characters of the
\* content it embeds, whether the marker '... (content truncated)' follows
\* them, and whether the text 'undefined' stands for the content
Embedded(threw, taken, marker, undefinedText) ==
    [threw |-> threw, taken |-> taken, marker |-> marker, undefinedText |-> undefinedText]

\* buildReviewPrompt(filename, content, language) of services/aiService.js:
\* content.length of undefined raises; substring(0, maxContentLength)
buildReviewPrompt(length) ==
    IF length < 0 THEN Embedded(TRUE, 0, FALSE, FALSE)
    ELSE IF length > maxContentLength THEN Embedded(FALSE, maxContentLength, TRUE, FALSE)
    ELSE Embedded(FALSE, length, FALSE, FALSE)

\* the template literal of analyzeCode(filename, patch): ${patch} whole
analyzePrompt(length) ==
    IF length < 0 THEN Embedded(FALSE, 0, FALSE, TRUE)
    ELSE Embedded(FALSE, length, FALSE, FALSE)

\* the prompt of the service deployed
promptOf(service, length) ==
    IF service = "reviewCode" THEN buildReviewPrompt(length) ELSE analyzePrompt(length)

----------------------------------------------------------------------------
(* The PR-level rating of generateSummaryComment *)

\* the character codes of the decimal digits
Digits == 48 .. 57
NaN == [nan |-> TRUE, n |-> 0]

\* value of a run of decimal digits
RECURSIVE DigitsValue(_)
DigitsValue(s) ==
    IF s = <<>> THEN 0 ELSE 10 * DigitsValue(SubSeq(s, 1, Len(s) - 1)) + (s[Len(s)] - 48)

\* a number with at most one decimal, in tenths
Tenths(x) == IF Len(x.s) = 1 THEN 10 * x.s[1] ELSE 10 * x.s[1] + x.s[2]

\* r.aiAnalysis.rating || 3: undefined, null, 0 and '' give 3
ratingOr3(rating) ==
    IF rating.t = "number" /\ Tenths(rating) # 0 THEN rating
    ELSE IF rating.t = "string" /\ rating.s # <<>> THEN rating
    ELSE Num(3)

\* decimal digits of a natural number
RECURSIVE DecimalDigits(_)
DecimalDigits(n) ==
    IF n < 10 THEN <<48 + n>> ELSE DecimalDigits(n \div 10) \o <<48 + (n % 10)>>

\* String(x) of a number given in tenths
NumberToString(tenths) ==
    DecimalDigits(tenths \div 10)
        \o (IF tenths % 10 = 0 THEN <<>> ELSE <<46, 48 + (tenths % 10)>>)

\* the running sum of reduce: a number, in tenths, or a string
NumberSum(tenths) == [t |-> "number", tenths |-> tenths, s |-> <<>>]
StringSum(s) == [t |-> "string", tenths |-> 0, s |-> s]

\* sum + x: an addition of two numbers, a concatenation as soon as one of
\* the two is a string
Plus(sum, x) ==
    IF sum.t = "number" /\ x.t = "number" THEN NumberSum(sum.tenths + Tenths(x))
    ELSE StringSum((IF sum.t = "number" THEN NumberToString(sum.tenths) ELSE sum.s)
                   \o (IF x.t = "number" THEN NumberToString(Tenths(x)) ELSE x.s))

\* analysisResults.reduce((sum, r) => sum + (r.aiAnalysis.rating || 3), 0)
RECURSIVE reduceRatings(_)
reduceRatings(ratings) ==
    IF ratings = <<>> THEN NumberSum(0)
    ELSE Plus(reduceRatings(SubSeq(ratings, 1, Len(ratings) - 1)),
              ratingOr3(ratings[Len(ratings)]))

RECURSIVE Pow10(_)
Pow10(k) == IF k = 0 THEN 1 ELSE 10 * Pow10(k - 1)

\* Number(s) of a string made by the concatenations above, as the fraction
\* num / den: digits, then possibly a dot and more digits; NaN otherwise
ToNumber(s) ==
    LET dots == {k \in 1 .. Len(s) : s[k] = 46}
        whole == IF dots = {} THEN s ELSE SubSeq(s, 1, (CHOOSE k \in dots : TRUE) - 1)
        fraction == IF dots = {} THEN <<>>
                    ELSE SubSeq(s, (CHOOSE k \in dots : TRUE) + 1, Len(s))
    IN  IF \/ Cardinality(dots) > 1
           \/ \E k \in 1 .. Len(s) : s[k] \notin Digits \cup {46}
           \/ whole \o fraction = <<>>
        THEN [nan |-> TRUE, num |-> 0, den |-> 1]
        ELSE [nan |-> FALSE, num |-> DigitsValue(whole \o fraction),
              den |-> Pow10(Len(fraction))]

\* Math.round(num / den) of a non-negative fraction: halves go up
MathRound(num, den) == (2 * num + den) \div (2 * den)

\* overallRating: the ratings are r.aiAnalysis.rating of analysisResults in
\* order; the division turns a sum that is a string into a number
overallRating(ratings) ==
    IF Len(ratings) > 0
    THEN LET sum == reduceRatings(ratings)
             value == IF sum.t = "number"
                      THEN [nan |-> FALSE, num |-> sum.tenths, den |-> 10]
                      ELSE ToNumber(sum.s)
         IN  IF value.nan THEN NaN
             ELSE [nan |-> FALSE, n |-> MathRound(value.num, value.den * Len(ratings))]
    ELSE [nan |-> FALSE, n |-> 3]

----------------------------------------------------------------------------
(* File-selection policy of services/githubService.js *)

File(status, binary, changes, extension) ==
    [status |-> status, binary |-> binary, changes |-> changes, extension |-> extension]

NoFile == File("<none>", FALSE, 0, "")

supportedExtensions ==
    {".js", ".jsx", ".ts", ".tsx", ".py", ".rb", ".java", ".cs", ".php", ".go", ".rs",
     ".cpp", ".c", ".h", ".hpp", ".swift", ".kt", ".scala", ".clj", ".dart", ".vue",
     ".svelte", ".html", ".css", ".scss", ".sass", ".less", ".sql"}

\* shouldReviewFile(file); extension is getFileExtension(file.filename)
shouldReviewFile(file) ==
    IF file.status = "removed" THEN FALSE
    ELSE IF file.binary THEN FALSE
    ELSE IF file.changes > 500 THEN FALSE
    ELSE IF file.extension \notin supportedExtensions THEN FALSE
    ELSE TRUE

\* A file name is kept split at its dots: the part before the first dot,
\* then one part per dot, each starting with its dot ("a.min.js" is
\* <<"a", ".min", ".js">>, "Makefile" is <<"Makefile">>).
\* getFileExtension(filename): filename.substring(filename.lastIndexOf('.')),
\* and substring(-1) is the whole name when it has no dot
getFileExtension(filename) == filename[Len(filename)]

\* a file of the listing as GitHub names it
FileNamed(status, binary, changes, filename) ==
    File(status, binary, changes, getFileExtension(filename))

\* the longest prefix of s made of digits
RECURSIVE DigitPrefix(_)
DigitPrefix(s) ==
    IF s = <<>> \/ s[1] \notin Digits THEN <<>> ELSE <<s[1]>> \o DigitPrefix(Tail(s))

\* parseInt(value): blanks are skipped, then an optional sign, then the
\* digits up to the first other character; NaN without a digit
parseInt(value) ==
    IF value.t # "string" THEN NaN
    ELSE LET s == TrimStart(value.s)
             signed == s # <<>> /\ s[1] \in {43, 45}
             digits == DigitPrefix(IF signed THEN Tail(s) ELSE s)
         IN  IF digits = <<>> THEN NaN
             ELSE [nan |-> FALSE,
                   n |-> IF signed /\ s[1] = 45 THEN 0 - DigitsValue(digits)
                         ELSE DigitsValue(digits)]

\* config.limits.maxFilesPerPR: parseInt(process.env.MAX_FILES_PER_PR) || 50
maxFilesPerPR(value) ==
    LET parsed == parseInt(value)
    IN  IF parsed.nan \/ parsed.n = 0 THEN 50 ELSE parsed.n

\* Array.prototype.slice(0, end)
Slice0(s, end) ==
    IF end >= 0 THEN SubSeq(s, 1, IF end < Len(s) THEN end ELSE Len(s))
    ELSE SubSeq(s, 1, Len(s) + end)

\* files.filter(...).slice(0, limit) without the slice
filterReviewableFilesUnlimited(files, limit) ==
    [input |-> files, ret |-> SelectSeq(files, shouldReviewFile)]

\* files.filter(file => this.shouldReviewFile(file)).slice(0, limit) after
\* a test "changes >= 500" in place of "changes > 500"
filterReviewableFilesBelow500(files, limit) ==
    LET keep(file) == shouldReviewFile(file) /\ file.changes # 500
    IN  [input |-> files, ret |-> Slice0(SelectSeq(files, keep), limit)]

\* filterReviewableFiles(files), limit being config.limits.maxFilesPerPR:
\* filter and slice build new arrays; input is the caller's array after
\* the call, ret the array returned
filterReviewableFiles(files, limit) ==
    [input |-> files, ret |-> Slice0(SelectSeq(files, shouldReviewFile), limit)]

----------------------------------------------------------------------------
(* parseWebhookPayload of routes/webhooks.js.  Texts are sequences of       *)
(* character codes below 128.                                              *)

FormContentType == "application/x-www-form-urlencoded"

\* the name 'payload'
PayloadName == <<112, 97, 121, 108, 111, 97, 100>>

\* characters the form serializer of a sender leaves as they are: letters,
\* digits, and * - . _
Unreserved == (48 .. 57) \cup (65 .. 90) \cup (97 .. 122) \cup {42, 45, 46, 95}

HexCode(d) == IF d < 10 THEN 48 + d ELSE 55 + d
HexValue(c) ==
    IF c \in 48 .. 57 THEN c - 48
    ELSE IF c \in 65 .. 70 THEN c - 55
    ELSE IF c \in 97 .. 102 THEN c - 87
    ELSE 0 - 1

\* application/x-www-form-urlencoded serialization of a field value, as
\* the sender of a webhook does it: a blank becomes '+', every other
\* reserved character '%' and two hexadecimal digits
RECURSIVE FormEncode(_)
FormEncode(text) ==
    IF text = <<>> THEN <<>>
    ELSE (IF text[1] \in Unreserved THEN <<text[1]>>
          ELSE IF text[1] = 32 THEN <<43>>
          ELSE <<37, HexCode(text[1] \div 16), HexCode(text[1] % 16)>>)
         \o FormEncode(Tail(text))

\* the decoding URLSearchParams applies to names and values: '+' is a
\* blank, '%' with two hexadecimal digits a byte, anything else itself
RECURSIVE FormDecode(_)
FormDecode(s) ==
    IF s = <<>> THEN <<>>
    ELSE IF s[1] = 43 THEN <<32>> \o FormDecode(Tail(s))
    ELSE IF s[1] = 37 /\ Len(s) >= 3 /\ HexValue(s[2]) >= 0 /\ HexValue(s[3]) >= 0
    THEN <<16 * HexValue(s[2]) + HexValue(s[3])>> \o FormDecode(SubSeq(s, 4, Len(s)))
    ELSE <<s[1]>> \o FormDecode(Tail(s))

\* the pieces of s between the occurrences of the character c
RECURSIVE Split(_, _)
Split(s, c) ==
    IF \A k \in 1 .. Len(s) : s[k] # c THEN <<s>>
    ELSE LET at == CHOOSE k \in 1 .. Len(s) :
                       s[k] = c /\ \A j \in 1 .. k - 1 : s[j] # c
         IN  <<SubSeq(s, 1, at - 1)>> \o Split(SubSeq(s, at + 1, Len(s)), c)

\* new URLSearchParams(bodyString).get(name): the pairs are the non-empty
\* pieces between '&', each cut at its first '='; the value of the first
\* pair with that name (decoded when decode holds, which is what
\* URLSearchParams does), null when there is none
SearchParamsGet(bodyString, name, decode) ==
    LET pieces == SelectSeq(Split(bodyString, 38), LAMBDA piece : piece # <<>>)
        NameOf(piece) == Split(piece, 61)[1]
        ValueOf(piece) == SubSeq(piece, Len(NameOf(piece)) + 2, Len(piece))
        Decoded(text) == IF decode THEN FormDecode(text) ELSE text
        named == {k \in 1 .. Len(pieces) : Decoded(NameOf(pieces[k])) = name}
    IN  IF named = {} THEN Null
        ELSE Str(Decoded(ValueOf(pieces[CHOOSE k \in named : \A j \in named : k <= j])))

\* the value null
NullPayload == [kind |-> "null", action |-> "<undefined>",
                pull_request |-> NoPullRequest, repository |-> NoRepository]

\* what a call of parseWebhookPayload gives its caller: an exception
\* (threw) or the value returned
Parsed(threw, ret) == [threw |-> threw, ret |-> ret]

\* the body of parseWebhookPayload; caught tells whether the try block has
\* its catch, which logs and returns null
parseWebhookPayloadFrom(contentType, body, decode, caught) ==
    LET failure == Parsed(~caught, NullPayload)
        ParseText(text) ==
            IF JSONparse(text).kind = "throw" THEN failure
            ELSE Parsed(FALSE, JSONparse(text))
    IN  IF body.t \in {"undefined", "null"} \/ (body.t \in {"buffer", "string"} /\ body.s = <<>>)
        THEN failure
        ELSE LET bodyString == BodyToString(body)
             IN  IF contentType = FormContentType
                 THEN LET payloadString == SearchParamsGet(bodyString, PayloadName, decode)
                      IN  IF ~Truthy(payloadString) THEN failure
                          ELSE ParseText(payloadString.s)
                 ELSE ParseText(bodyString)

\* urlParams.get('payload') taken as the text between 'payload=' and '&'
parseWebhookPayloadUndecoded(contentType, body) ==
    parseWebhookPayloadFrom(contentType, body, FALSE, TRUE)

\* the try block without its catch
parseWebhookPayloadNoCatch(contentType, body) ==
    parseWebhookPayloadFrom(contentType, body, TRUE, FALSE)

\* parseWebhookPayload(req): contentType is req.headers['content-type'],
\* body is req.body
parseWebhookPayload(contentType, body) ==
    parseWebhookPayloadFrom(contentType, body, TRUE, TRUE)

----------------------------------------------------------------------------
(* Start-up of the server and GET /webhooks/health *)

\* process.env: the variables the configuration reads
Env(token, secret, groqKey, groqModel) ==
    [GITHUB_TOKEN |-> token, GITHUB_WEBHOOK_SECRET |-> secret,
     GROQ_API_KEY |-> groqKey, GROQ_MODEL |-> groqModel]

required == <<"GITHUB_TOKEN", "GITHUB_WEBHOOK_SECRET">>

\* missing.join(', ')
RECURSIVE Join(_)
Join(names) ==
    IF Len(names) <= 1 THEN names
    ELSE <<names[1], ", ">> \o Join(Tail(names))

\* a validation that requires the token only
validateConfigTokenOnly(e) ==
    [threw |-> ~Truthy(e.GITHUB_TOKEN),
     message |-> IF ~Truthy(e.GITHUB_TOKEN)
                 THEN <<"Missing required environment variables: ", "GITHUB_TOKEN">>
                 ELSE <<>>,
     warned |-> Truthy(e.GITHUB_TOKEN) /\ ~Truthy(e.GROQ_API_KEY)]

\* validateConfig(): threw with error.message when a required variable is
\* falsy (unset or empty); otherwise a warning when GROQ_API_KEY is
validateConfig(e) ==
    LET isMissing(key) == ~Truthy(e[key])
        missing == SelectSeq(required, isMissing)
    IN  [threw |-> Len(missing) > 0,
         message |-> IF Len(missing) > 0
                     THEN <<"Missing required environment variables: ">> \o Join(missing)
                     ELSE <<>>,
         warned |-> Len(missing) = 0 /\ ~Truthy(e.GROQ_API_KEY)]

\* the server process: loading its modules, validated, listening, or
\* exited with a code; error is what it wrote to console.error
Process(state, exitCode, error, listened) ==
    [state |-> state, exitCode |-> exitCode, error |-> error, listened |-> listened]

\* config.ai.model: process.env.GROQ_MODEL || 'llama3-8b-8192'
aiModel(e) == IF Truthy(e.GROQ_MODEL) THEN e.GROQ_MODEL ELSE Str(<<108, 51>>)

\* getStatus() of the AI service: initializeGroq sets isConfigured, which
\* isReady returns; the provider is fixed by config/config.js
getStatus(e) ==
    [provider |-> "groq", configured |-> reviewConfigured(e.GROQ_API_KEY, "groq", FALSE),
     model |-> aiModel(e), ready |-> reviewConfigured(e.GROQ_API_KEY, "groq", FALSE)]

\* healthCheck() of the snapshot of the processing service that has it
healthCheck(e) ==
    LET aiStatus == getStatus(e)
    IN  [github |-> "connected",
         ai |-> [provider |-> aiStatus.provider,
                 status |-> IF aiStatus.ready THEN "ready" ELSE "not_configured",
                 model |-> aiStatus.model]]

NoServices == [github |-> "<absent>",
               ai |-> [provider |-> "<absent>", status |-> "<absent>", model |-> Undefined]]
NoHealth == [code |-> 0, status |-> "<none>", services |-> NoServices, error |-> "<absent>"]

\* router.get('/health'): services/prProcessingService.js defines
\* getHealthStatus and no healthCheck, so on it the call in the try block
\* is a call of undefined and raises a TypeError, which the catch answers
healthRoute(service, e) ==
    IF service = "review"
    THEN [NoHealth EXCEPT !.code = 500, !.status = "unhealthy",
                          !.error = "prProcessingService.healthCheck is not a function"]
    ELSE [NoHealth EXCEPT !.code = 200, !.status = "healthy", !.services = healthCheck(e)]

----------------------------------------------------------------------------
(* POST /webhooks/github *)

NoResponse == [status |-> 0, error |-> "<absent>", message |-> "<absent>",
               pullRequest |-> 0, repository |-> <<>>, action |-> "<absent>"]

ErrorResponse(status, error) == [NoResponse EXCEPT !.status = status, !.error = error]
MessageResponse(message) == [NoResponse EXCEPT !.status = 200, !.message = message]

\* the template literal `${owner}/${repo}`
RepositoryName(owner, repo) ==
    << IF owner = "<undefined>" THEN "undefined" ELSE owner, "/",
       IF repo = "<undefined>" THEN "undefined" ELSE repo >>

\* res.json drops members whose value is undefined
AcceptedResponse(prInfo) ==
    [NoResponse EXCEPT !.status = 200,
                       !.message = "Webhook received and processing started",
                       !.pullRequest = prInfo.pullNumber,
                       !.repository = RepositoryName(prInfo.owner, prInfo.repo),
                       !.action = IF prInfo.action = "<undefined>" THEN "<absent>"
                                  ELSE prInfo.action]

\* express.raw({type: 'application/json'}): a Buffer of the raw bytes when
\* the content type matches and a body was sent, otherwise the empty object
RawBody(request) ==
    IF request.contentType = "application/json" /\ request.bytes # <<>>
    THEN Buf(request.bytes)
    ELSE EmptyObject

\* Outcome of one run of the handler: the responses sent, the number of
\* setImmediate callbacks registered, the PR info they carry, and how far
\* the handler got (verified: result of the signature check; parsed: JSON.parse
\* was called; extracted: extractPRInfo was called).
Outcome(res, scheduled, prInfo, verified, parsed, extracted) ==
    [res |-> res, scheduled |-> scheduled, prInfo |-> prInfo,
     verified |-> verified, parsed |-> parsed, extracted |-> extracted]

githubHandlerFrom(secret, request, v) ==
    LET body == RawBody(request)
    IN  IF request.event # "pull_request"
        THEN Outcome(<<MessageResponse("Event ignored")>>, 0, NoPRInfo, v, FALSE, FALSE)
        ELSE LET payload == JSONparse(BodyToString(body))
             IN  IF payload.kind = "throw"
                 THEN Outcome(<<ErrorResponse(500, "Internal server error")>>, 0, NoPRInfo,
                              v, TRUE, FALSE)
                 ELSE LET prInfo == extractPRInfo(payload)
                      IN  IF prInfo.threw
                          THEN Outcome(<<ErrorResponse(500, "Internal server error")>>, 0,
                                       NoPRInfo, v, TRUE, TRUE)
                          ELSE IF ~shouldProcessEvent(prInfo.action)
                          THEN Outcome(<<MessageResponse("Action ignored")>>, 0, prInfo,
                                       v, TRUE, TRUE)
                          ELSE Outcome(<<AcceptedResponse(prInfo)>>, 1, prInfo,
                                       v, TRUE, TRUE)

githubHandlerNoSignatureCheck(secret, request) ==
    githubHandlerFrom(secret, request,
                      verifyGitHubSignature(secret, RawBody(request), request.signature))

githubHandlerSchedulesTwice(secret, request) ==
    LET out == githubHandlerNoSignatureCheck(secret, request)
        v == out.verified
    IN  IF v.ret = "true"
        THEN [out EXCEPT !.scheduled = 2 * out.scheduled]
        ELSE Outcome(<<ErrorResponse(401, "Invalid signature")>>, 0, NoPRInfo, v, FALSE, FALSE)

\* a handler that parses the body and extracts the PR information before
\* it looks at the signature
githubHandlerParsesFirst(secret, request) ==
    LET out == githubHandlerNoSignatureCheck(secret, request)
        v == out.verified
        failed == out.res[1].status = 500
    IN  IF v.ret = "true" \/ failed THEN out
        ELSE IF v.ret = "throw"
        THEN Outcome(<<ErrorResponse(500, "Internal server error")>>, 0, NoPRInfo,
                     v, out.parsed, out.extracted)
        ELSE Outcome(<<ErrorResponse(401, "Invalid signature")>>, 0, NoPRInfo,
                     v, out.parsed, out.extracted)

\* a handler in which a statement after the acceptance response throws, so
\* that its catch block answers as well
githubHandlerAnswersTwice(secret, request) ==
    LET out == githubHandlerNoSignatureCheck(secret, request)
        v == out.verified
    IN  IF v.ret = "throw"
        THEN Outcome(<<ErrorResponse(500, "Internal server error")>>, 0, NoPRInfo,
                     v, FALSE, FALSE)
        ELSE IF v.ret = "false"
        THEN Outcome(<<ErrorResponse(401, "Invalid signature")>>, 0, NoPRInfo,
                     v, FALSE, FALSE)
        ELSE IF out.scheduled > 0
        THEN [out EXCEPT !.res = @ \o <<ErrorResponse(500, "Internal server error")>>]
        ELSE out

\* router.post('/github', ...) of routes/webhooks.js
githubHandler(secret, request) ==
    LET v == verifyGitHubSignature(secret, RawBody(request), request.signature)
    IN  IF v.ret = "throw"
        THEN Outcome(<<ErrorResponse(500, "Internal server error")>>, 0, NoPRInfo,
                     v, FALSE, FALSE)
        ELSE IF v.ret = "false"
        THEN Outcome(<<ErrorResponse(401, "Invalid signature")>>, 0, NoPRInfo,
                     v, FALSE, FALSE)
        ELSE githubHandlerFrom(secret, request, v)

----------------------------------------------------------------------------
(* The server: deliveries arrive, the handler answers each and may         *)
(* register a setImmediate callback that runs processPR later.             *)

Deliveries == 1 .. MaxDeliveries

\* bodies a sender delivers: complete pull_request payloads ...
WellFormedBodies == {<<1, 1, 1>>, <<2, 2, 2>>, <<3, 1, 3>>, <<4, 2, 1>>}
\* ... and bodies that are not JSON, are not objects, or lack a member
MalformedBodies ==
    {<<>>, <<0>>, <<1>>, <<2, 2>>, <<1, 0, 1>>, <<1, 1, 0>>, <<1, 3, 1>>, <<1, 1, 4>>,
     <<0, 1, 1>>, <<1, 4, 1>>}
DeliveryBodies == WellFormedBodies \cup MalformedBodies
\* bodies of normal operation: an opened PR of a public repository, a
\* synchronized PR of a private one, a closed PR
TypicalBodies == {<<1, 1, 1>>, <<2, 2, 2>>, <<4, 2, 1>>}

\* the header a sender attaches: none, the signature of the body under the
\* secret it knows, or that signature with its last character changed
HeaderFor(kind, secret, bytes) ==
    LET k == IF Truthy(secret) THEN secret.s ELSE <<107>>
        good == githubSignature(k, bytes)
        n == Len(good)
    IN  CASE kind = "absent" -> Undefined
          [] kind = "valid" -> Str(good)
          [] OTHER -> Str([good EXCEPT ![n] = IF good[n] = 48 THEN 49 ELSE 48])

NoRequest == [contentType |-> "<undefined>", bytes |-> <<>>, signature |-> Undefined,
              sent |-> "none", event |-> "<undefined>"]

\* a processPR invocation: where it is suspended, its argument, its loop
\* (number of files listed, index and attributes of the file under
\* analysis), the TypeError that generateSummaryComment will raise on the
\* analyses collected so far ("" for none), the body handed to the posting
\* call it awaits, which call or step sent it into its catch block ("" for
\* none), and how it ended
NoBody == [kind |-> "none", message |-> "", sections |-> <<>>]
NoTask == [pc |-> "none", prInfo |-> NoPRInfo, files |-> 0, i |-> 0, file |-> NoFile,
           bad |-> "", results |-> <<>>, body |-> NoBody, failed |-> "", outcome |-> "none"]
\* outbound calls of an invocation: getPRFiles, analyzeCode, posting calls
NoCalls == [listing |-> 0, ai |-> 0, post |-> 0]

NoAnalyzeInput == [apiKey |-> Undefined, provider |-> "groq", constructorThrows |-> FALSE,
                   fileContent |-> Undefined, completion |-> Completion("none", <<>>)]
NoAnalyzeOutput == [called |-> FALSE,
                    analysis |-> [threw |-> FALSE, ret |-> NoAnalysis, apiCalls |-> 0],
                    review |-> [threw |-> FALSE, ret |-> "none", apiCalls |-> 0]]

NoFilterInput == [event |-> "<undefined>", action |-> "<undefined>"]
NoFilterOutput == [called |-> FALSE, router |-> FALSE, routerTwoArgs |-> FALSE,
                   legacy |-> FALSE]

NoParseInput == [how |-> "none", json |-> <<>>, contentType |-> "<undefined>",
                 body |-> Undefined]
NoParseOutput == [called |-> FALSE, ret |-> Parsed(FALSE, NullPayload),
                  direct |-> Parsed(FALSE, NullPayload)]
NoPromptInput == [service |-> "none", length |-> 0]
NoPromptOutput == [called |-> FALSE, prompt |-> Embedded(FALSE, 0, FALSE, FALSE)]
NoEnv == Env(Undefined, Undefined, Undefined, Undefined)
NotStarted == Process("none", 0, <<>>, FALSE)
NoRatingOutput == [called |-> FALSE, overallRating |-> NaN]
NoSelectInput == [files |-> <<>>, maxFiles |-> Undefined]
NoSelectOutput == [called |-> FALSE, input |-> <<>>, ret |-> <<>>]

\* the units examined alone besides the verifier, the filters and the AI
\* service are not exercised
IdleUnitsExcept(unit) ==
    /\ unit # "select" => sIn = NoSelectInput /\ sOut = NoSelectOutput
    /\ unit # "rating" => gIn = <<>> /\ gOut = NoRatingOutput
    /\ unit # "startup" => env = NoEnv /\ proc = NotStarted /\ health = NoHealth
    /\ unit # "parse" => pIn = NoParseInput /\ pOut = NoParseOutput
    /\ unit # "prompt" => mIn = NoPromptInput /\ mOut = NoPromptOutput

IdleUnits == IdleUnitsExcept("none")

\* the server after start-up: nothing delivered yet
InitServer ==
    /\ webhookSecret \in {Undefined, Str(<<107>>)}
    /\ impl \in {"review", "acknowledge"}
    /\ aiApiKey \in {Undefined, Str(<<103>>)}
    /\ delivered = 0
    /\ req = NoRequest
    /\ handled = Outcome(<<>>, 0, NoPRInfo, NoOutput, FALSE, FALSE)
    /\ responses = [d \in Deliveries |-> <<>>]
    /\ immediateQueue = <<>>
    /\ tasks = [d \in Deliveries |-> NoTask]
    /\ calls = [d \in Deliveries |-> NoCalls]
    /\ comments = [d \in Deliveries |-> <<>>]

Init ==
    /\ InitServer
    /\ vIn = NoInput
    /\ vOut = NoOutput
    /\ fIn = NoFilterInput
    /\ fOut = NoFilterOutput
    /\ aIn = NoAnalyzeInput
    /\ aOut = NoAnalyzeOutput
    /\ IdleUnits

\* the verifier harness: one input drawn, not yet verified
InitVerify ==
    /\ InitServer
    /\ webhookSecret = Undefined
    /\ impl = "review"
    /\ aiApiKey = Undefined
    /\ DrawVerifyInput
    /\ vOut = NoOutput
    /\ fIn = NoFilterInput
    /\ fOut = NoFilterOutput
    /\ aIn = NoAnalyzeInput
    /\ aOut = NoAnalyzeOutput
    /\ IdleUnits

\* event types and actions given to the event filters alone
FilterEvents ==
    {"pull_request", "push", "issues", "pull_request_review", "ping",
     "opened", "synchronize", "<undefined>"}
FilterActions ==
    {"opened", "synchronize", "ready_for_review", "closed", "reopened", "edited",
     "pull_request", "<undefined>"}

\* the filter harness: one (eventType, action) pair drawn, not yet filtered
InitFilter ==
    /\ InitServer
    /\ webhookSecret = Undefined
    /\ impl = "review"
    /\ aiApiKey = Undefined
    /\ vIn = NoInput
    /\ vOut = NoOutput
    /\ fIn \in [event : FilterEvents, action : FilterActions]
    /\ fOut = NoFilterOutput
    /\ aIn = NoAnalyzeInput
    /\ aOut = NoAnalyzeOutput
    /\ IdleUnits

\* prose of n characters, the k-th one distinct from its neighbours
Prose(n) == [k \in 1 .. n |-> 65 + (k % 26)]

\* answers of the model given to the AI service alone: every object of the
\* codebook, the texts 'null', a number and '[]', the empty text, blanks,
\* prose, an object between blanks, and prose around the length at which
\* the fallback cuts its excerpt
AnswerTexts ==
    {<<r, i, s>> : r \in 0 .. 9, i \in 0 .. 5, s \in 0 .. 3}
        \cup {<<0>>, <<1>>, <<2>>, <<>>, <<32>>, <<72, 105>>, <<32, 72, 105, 32>>}
        \cup {<<32, 4, 1, 1, 32>>}
        \cup {Prose(150), Prose(151), <<32>> \o Prose(152)}

\* the AI harness: one configuration, file content and completion drawn,
\* no method called yet
InitAnalyze ==
    /\ InitServer
    /\ webhookSecret = Undefined
    /\ impl = "review"
    /\ aiApiKey = Undefined
    /\ vIn = NoInput
    /\ vOut = NoOutput
    /\ fIn = NoFilterInput
    /\ fOut = NoFilterOutput
    /\ \E apiKey \in {Undefined, Str(<<>>), Str(<<103>>)},
          provider \in {"groq", "openai"},
          constructorThrows \in BOOLEAN,
          fileContent \in {Undefined, Str(<<>>), Str(<<120>>)} :
          \/ \E kind \in {"reject", "noChoices", "nullContent"} :
                aIn = [apiKey |-> apiKey, provider |-> provider,
                       constructorThrows |-> constructorThrows,
                       fileContent |-> fileContent, completion |-> Completion(kind, <<>>)]
          \/ \E text \in AnswerTexts :
                aIn = [apiKey |-> apiKey, provider |-> provider,
                       constructorThrows |-> constructorThrows,
                       fileContent |-> fileContent,
                       completion |-> Completion("content", text)]
    /\ aOut = NoAnalyzeOutput
    /\ IdleUnits

\* one call of analyzeCode and one of reviewCode on the input under test
AnalyzeCall ==
    /\ ~aOut.called
    /\ aOut' = [called |-> TRUE,
                analysis |-> analyzeCode(aIn.apiKey, aIn.completion),
                review |-> reviewCode(aIn.apiKey, aIn.provider, aIn.constructorThrows,
                                      aIn.fileContent, aIn.completion)]
    /\ UNCHANGED aIn

\* files given to the file selection alone: two reviewable ones, one with
\* two dots, and one for each reason of exclusion, at both sides of the
\* change limit
SelectFiles ==
    {FileNamed("modified", FALSE, 500, <<"app", ".js">>),
     FileNamed("added", FALSE, 10, <<"lib", ".py">>),
     FileNamed("renamed", FALSE, 1, <<"a", ".min", ".css">>),
     FileNamed("removed", FALSE, 3, <<"old", ".js">>),
     FileNamed("added", TRUE, 0, <<"logo", ".html">>),
     FileNamed("modified", FALSE, 501, <<"big", ".ts">>),
     FileNamed("modified", FALSE, 2, <<"README", ".md">>),
     FileNamed("added", FALSE, 4, <<"Makefile">>)}

\* values of MAX_FILES_PER_PR: unset, '1', '2', '0' and 'x'
MaxFilesSettings == {Undefined, Str(<<49>>), Str(<<50>>), Str(<<48>>), Str(<<120>>)}

\* the selection harness: one file list and one setting drawn, not yet
\* filtered
InitSelect ==
    /\ InitServer
    /\ webhookSecret = Undefined
    /\ impl = "review"
    /\ aiApiKey = Undefined
    /\ vIn = NoInput
    /\ vOut = NoOutput
    /\ fIn = NoFilterInput
    /\ fOut = NoFilterOutput
    /\ aIn = NoAnalyzeInput
    /\ aOut = NoAnalyzeOutput
    /\ \E files \in SeqsUpTo(SelectFiles, MaxFiles), setting \in MaxFilesSettings :
          sIn = [files |-> files, maxFiles |-> setting]
    /\ sOut = NoSelectOutput
    /\ IdleUnitsExcept("select")

\* the rating harness: the ratings of the analyses of up to MaxFiles
\* files drawn from every rating of the codebook of AI answers, no summary
\* generated yet
InitRating ==
    /\ InitServer
    /\ webhookSecret = Undefined
    /\ impl = "review"
    /\ aiApiKey = Undefined
    /\ vIn = NoInput
    /\ vOut = NoOutput
    /\ fIn = NoFilterInput
    /\ fOut = NoFilterOutput
    /\ aIn = NoAnalyzeInput
    /\ aOut = NoAnalyzeOutput
    /\ gIn \in SeqsUpTo({RatingOf(r) : r \in 0 .. 9}, MaxFiles)
    /\ gOut = NoRatingOutput
    /\ IdleUnitsExcept("rating")

\* JSON texts a sender serializes: objects of the codebook whose first
\* character is a control character, a blank, or one of % & + =, and the
\* texts 'null' and of a number
JsonTexts ==
    {<<a, p, r>> : a \in {1, 2, 32, 37, 38, 43, 61}, p \in {1, 2}, r \in {1, 3}}
        \cup {<<0>>, <<1>>}
\* texts that are not JSON
NotJsonTexts == {<<123>>, <<1, 1>>, <<1, 1, 1, 1>>, <<72, 105>>}

ParseInput(how, json, contentType, body) ==
    [how |-> how, json |-> json, contentType |-> contentType, body |-> body]

\* the parsing harness: one request drawn, not yet parsed.  "form": the
\* sender put the text in the field 'payload' of a form, alone or after
\* another field; "json": the text is the body; "raw": the text follows
\* 'payload=' unencoded; "empty": no body, an empty one, or the empty
\* object express.raw leaves; "nofield": a form without the field, or with
\* an empty one
InitParse ==
    /\ InitServer
    /\ webhookSecret = Undefined
    /\ impl = "review"
    /\ aiApiKey = Undefined
    /\ vIn = NoInput
    /\ vOut = NoOutput
    /\ fIn = NoFilterInput
    /\ fOut = NoFilterOutput
    /\ aIn = NoAnalyzeInput
    /\ aOut = NoAnalyzeOutput
    /\ IdleUnitsExcept("parse")
    /\ \/ \E text \in JsonTexts \cup NotJsonTexts, other \in {<<>>, <<120, 61, 49, 38>>} :
             pIn = ParseInput("form", text, FormContentType,
                              Buf(other \o PayloadName \o <<61>> \o FormEncode(text)))
       \/ \E text \in JsonTexts \cup NotJsonTexts :
             \/ pIn = ParseInput("json", text, "application/json", Buf(text))
             \/ pIn = ParseInput("raw", text, FormContentType,
                                 Buf(PayloadName \o <<61>> \o text))
       \/ \E contentType \in {"application/json", FormContentType},
             body \in {Undefined, Buf(<<>>), EmptyObject} :
             pIn = ParseInput("empty", <<>>, contentType, body)
       \/ \E bytes \in {<<120, 61, 49>>, PayloadName, PayloadName \o <<61>>,
                         <<120, 61, 49, 38>> \o PayloadName \o <<61>>,
                         <<112, 61, 1, 1, 1>>} :
             pIn = ParseInput("nofield", <<>>, FormContentType, Buf(bytes))
    /\ pOut = NoParseOutput

\* one call of parseWebhookPayload on the request under test, and one on
\* the text itself sent with a JSON content type
ParseCall ==
    /\ ~pOut.called
    /\ pOut' = [called |-> TRUE,
                ret |-> parseWebhookPayload(pIn.contentType, pIn.body),
                direct |-> parseWebhookPayload("application/json", Buf(pIn.json))]
    /\ UNCHANGED pIn

\* lengths of the contents given to the prompts: none, short ones, those
\* within PromptMargin of the limit, and twice the limit
PromptLengths ==
    {0 - 1} \cup (0 .. PromptMargin)
        \cup (maxContentLength - PromptMargin .. maxContentLength + PromptMargin)
        \cup {2 * maxContentLength}

\* the prompt harness: one configured AI service and one content drawn, no
\* prompt built yet
InitPrompt ==
    /\ InitServer
    /\ webhookSecret = Undefined
    /\ impl = "review"
    /\ aiApiKey = Undefined
    /\ vIn = NoInput
    /\ vOut = NoOutput
    /\ fIn = NoFilterInput
    /\ fOut = NoFilterOutput
    /\ aIn = NoAnalyzeInput
    /\ aOut = NoAnalyzeOutput
    /\ IdleUnitsExcept("prompt")
    /\ mIn \in [service : {"reviewCode", "analyzeCode"}, length : PromptLengths]
    /\ mOut = NoPromptOutput

\* the service builds the prompt it sends for the content under test
PromptCall ==
    /\ ~mOut.called
    /\ mOut' = [called |-> TRUE, prompt |-> promptOf(mIn.service, mIn.length)]
    /\ UNCHANGED mIn

\* values of an environment variable: unset, empty, set
EnvValues(value) == {Undefined, Str(<<>>), Str(value)}

\* the start-up harness: the process has loaded its modules under one
\* environment, with either snapshot of the processing service; the
\* configuration object has read the environment
InitStartup ==
    /\ \E token \in EnvValues(<<116>>), secret \in EnvValues(<<107>>),
          groqKey \in EnvValues(<<103>>), groqModel \in {Undefined, Str(<<109>>)} :
          env = Env(token, secret, groqKey, groqModel)
    /\ proc = Process("loaded", 0, <<>>, FALSE)
    /\ health = NoHealth
    /\ webhookSecret = env.GITHUB_WEBHOOK_SECRET
    /\ impl \in {"review", "acknowledge"}
    /\ aiApiKey = env.GROQ_API_KEY
    /\ delivered = 0
    /\ req = NoRequest
    /\ handled = Outcome(<<>>, 0, NoPRInfo, NoOutput, FALSE, FALSE)
    /\ responses = [d \in Deliveries |-> <<>>]
    /\ immediateQueue = <<>>
    /\ tasks = [d \in Deliveries |-> NoTask]
    /\ calls = [d \in Deliveries |-> NoCalls]
    /\ comments = [d \in Deliveries |-> <<>>]
    /\ vIn = NoInput
    /\ vOut = NoOutput
    /\ fIn = NoFilterInput
    /\ fOut = NoFilterOutput
    /\ aIn = NoAnalyzeInput
    /\ aOut = NoAnalyzeOutput
    /\ IdleUnitsExcept("startup")

\* the start-up code without process.exit(1) in its catch block
ValidateWithoutExit ==
    /\ proc.state = "loaded"
    /\ LET v == validateConfig(env)
       IN  proc' = Process("validated", 0, v.message, FALSE)
    /\ UNCHANGED <<env, health>>

\* the start-up code of the server: validateConfig() in a try block whose
\* catch logs error.message and exits with code 1
Validate ==
    /\ proc.state = "loaded"
    /\ LET v == validateConfig(env)
       IN  proc' = IF v.threw THEN Process("exited", 1, v.message, FALSE)
                   ELSE Process("validated", 0, <<>>, FALSE)
    /\ UNCHANGED <<env, health>>

\* app.listen, reached when the process has not exited
Listen ==
    /\ proc.state = "validated"
    /\ proc' = [proc EXCEPT !.state = "listening", !.listened = TRUE]
    /\ UNCHANGED <<env, health>>

\* one GET /webhooks/health answered by the listening server
Health ==
    /\ proc.state = "listening"
    /\ health = NoHealth
    /\ health' = healthRoute(impl, env)
    /\ UNCHANGED <<env, proc>>

\* one call of generateSummaryComment on analyses with these ratings
RatingCall ==
    /\ ~gOut.called
    /\ gOut' = [called |-> TRUE, overallRating |-> overallRating(gIn)]
    /\ UNCHANGED gIn

\* one call of filterReviewableFiles on the list under test
SelectCall ==
    /\ ~sOut.called
    /\ LET out == filterReviewableFiles(sIn.files, maxFilesPerPR(sIn.maxFiles))
       IN  /\ sIn' = [sIn EXCEPT !.files = out.input]
           /\ sOut' = [called |-> TRUE, input |-> sIn.files, ret |-> out.ret]

\* shouldProcessEvent(first, second): a JavaScript call with two arguments
\* of the imported filter, which declares one parameter; the first argument
\* is bound to it and the second is dropped
shouldProcessEventTwoArgs(first, second) == shouldProcessEvent(first)

\* the pair under test goes through both filters: the imported one as the
\* router calls it (with the action), the imported one called with
\* (eventType, action), and the two-parameter one
FilterCall ==
    /\ ~fOut.called
    /\ fOut' = [called |-> TRUE,
                router |-> shouldProcessEvent(fIn.action),
                routerTwoArgs |-> shouldProcessEventTwoArgs(fIn.event, fIn.action),
                legacy |-> legacyShouldProcessEvent(fIn.event, fIn.action)]
    /\ UNCHANGED fIn

\* a delivery as the handler sees it; sent records which header was attached
Request(contentType, bytes, sent, event) ==
    [contentType |-> contentType, bytes |-> bytes,
     signature |-> HeaderFor(sent, webhookSecret, bytes), sent |-> sent, event |-> event]

HandleInline(request) ==
    LET out == githubHandler(webhookSecret, request)
        d == delivered + 1
    IN  /\ delivered < MaxDeliveries
        /\ out.scheduled > 0
        /\ req' = request
        /\ handled' = out
        /\ delivered' = d
        /\ tasks' = [tasks EXCEPT ![d] = [NoTask EXCEPT !.pc = "listing", !.prInfo = out.prInfo]]
        /\ UNCHANGED <<webhookSecret, impl, aiApiKey, calls, comments, responses, immediateQueue>>

\* one webhook delivery, handled to completion: the handler has no await,
\* so it runs from its first line to its response in one turn of the event
\* loop; the callback it registers runs in a later turn
Handle(request) ==
    LET out == githubHandler(webhookSecret, request)
        d == delivered + 1
    IN  /\ delivered < MaxDeliveries
        /\ req' = request
        /\ handled' = out
        /\ delivered' = d
        /\ responses' = [responses EXCEPT ![d] = @ \o out.res]
        /\ immediateQueue' = immediateQueue \o [k \in 1 .. out.scheduled |-> d]
        /\ tasks' = [tasks EXCEPT ![d] =
                        IF out.scheduled > 0
                        THEN [NoTask EXCEPT !.pc = "scheduled", !.prInfo = out.prInfo]
                        ELSE NoTask]
        /\ UNCHANGED <<webhookSecret, impl, aiApiKey, calls, comments>>

\* any delivery arrives: a JSON delivery of any body, or a bodyless
\* delivery of another content type
DeliverAny ==
    \E sent \in {"absent", "valid", "invalid"}, event \in {"pull_request", "push"} :
        \/ \E bytes \in DeliveryBodies :
              Handle(Request("application/json", bytes, sent, event))
        \/ Handle(Request("text/plain", <<>>, sent, event))

\* number of deliveries accepted for processing so far
Accepted == Cardinality({d \in Deliveries : tasks[d].pc # "none"})

\* the handler accepts at most MaxAccepted deliveries for processing
MayHandle(request) ==
    /\ delivered < MaxDeliveries
    /\ Accepted < MaxAccepted \/ githubHandler(webhookSecret, request).scheduled = 0
    /\ Handle(request)

\* a delivery a repository sends in normal operation arrives (a signed
\* pull_request event), or a forged one
Deliver ==
    \/ \E bytes \in TypicalBodies :
          MayHandle(Request("application/json", bytes, "valid", "pull_request"))
    \/ MayHandle(Request("application/json", <<1, 1, 1>>, "invalid", "pull_request"))

----------------------------------------------------------------------------------------------------------------------------------------
(* processPR.  Each action below runs one invocation from one await to the  *)
(* next; the outcome of the awaited call (it resolves or rejects) is        *)
(* chosen by the environment.                                               *)

Goto(d, pc) == [tasks EXCEPT ![d].pc = pc, ![d].files = 0, ![d].i = 0,
                             ![d].file = NoFile, ![d].bad = "", ![d].results = <<>>,
                             ![d].body = NoBody]
Finish(d, outcome) == [Goto(d, "done") EXCEPT ![d].outcome = outcome]
Called(d, what) == [calls EXCEPT ![d][what] = @ + 1]

\* the body of a posting call: a summary with one section per analysed
\* file (sections names, in the order of the sections, the position each
\* file had in the listing), an error report quoting error.message, or the
\* acknowledgment
Body(kind, message, sections) == [kind |-> kind, message |-> message, sections |-> sections]

\* a call of postSummaryReview / postReviewComment with this body, awaited
\* at pc
Post(d, pc, body) ==
    /\ tasks' = [Goto(d, pc) EXCEPT ![d].body = body]
    /\ calls' = Called(d, "post")
    /\ UNCHANGED comments

\* error.message of a rejected GitHub API call
ListingErrors == {"Not Found", "Bad credentials"}
PostingError == "Validation Failed"

CatchLogsOnly(d, failed, message) ==
    /\ tasks' = [Finish(d, "gaveUp") EXCEPT ![d].failed = failed]
    /\ UNCHANGED <<calls, comments>>

\* the catch block of processPR, entered from the call or step that failed:
\* one attempt to post an error comment that quotes error.message
Catch(d, failed, message) ==
    /\ tasks' = [Goto(d, "errorPosting") EXCEPT ![d].body = Body("error", message, <<>>),
                                                ![d].failed = failed]
    /\ calls' = Called(d, "post")
    /\ UNCHANGED comments

\* processPR of services/prProcessingService.js up to its first await:
\* the file listing is requested whatever prInfo.isPublic says
StartReview(d) ==
    /\ tasks' = Goto(d, "listing")
    /\ calls' = Called(d, "listing")
    /\ UNCHANGED comments

\* processPR of the visibility-guarded snapshot up to its first await
StartAcknowledge(d) ==
    IF ~tasks[d].prInfo.isPublic
    THEN /\ tasks' = Finish(d, "skipped")
         /\ UNCHANGED <<calls, comments>>
    ELSE Post(d, "acknowledging", Body("acknowledgment", "", <<>>))

\* the event loop runs the oldest setImmediate callback
RunImmediate ==
    /\ immediateQueue # <<>>
    /\ LET d == Head(immediateQueue)
       IN  /\ immediateQueue' = Tail(immediateQueue)
           /\ IF impl = "review" THEN StartReview(d) ELSE StartAcknowledge(d)
    /\ UNCHANGED <<webhookSecret, impl, aiApiKey, delivered, req, handled, responses>>

\* generateSummaryComment over the analyses collected (bad is the TypeError
\* it raises on them, "" for none), whose analysisResults.map writes one
\* section per result in the order of the array, and the call of
\* postSummaryReview
PostSummary(d, results, bad) ==
    IF bad # ""
    THEN Catch(d, "summary", bad)
    ELSE Post(d, "posting",
              Body("summary", "", [k \in 1 .. Len(results) |-> results[k]]))

\* files a listing returns: a modified source file, a removed one, an
\* added image
ListedFiles ==
    {File("modified", FALSE, 10, ".js"), File("removed", FALSE, 10, ".js"),
     File("added", TRUE, 501, ".png")}

\* the loop as a Promise.all over the files: reaching the first file starts
\* the calls for all of them
AnalyzeFileAllAtOnce(d, files, i, bad, results) ==
    /\ \E file \in ListedFiles :
          tasks' = [tasks EXCEPT ![d].pc = "analyzing", ![d].files = files, ![d].i = i,
                                 ![d].file = file, ![d].bad = bad,
                                 ![d].results = results]
    /\ calls' = IF i = 1 THEN [calls EXCEPT ![d].ai = @ + files] ELSE calls
    /\ UNCHANGED comments

\* analysisResults kept in a member of the service, which is one object for
\* all invocations, in place of a local of processPR
AnalyzeFileSharedResults(d, files, i, bad, results) ==
    /\ \E file \in ListedFiles :
          tasks' = [e \in Deliveries |->
                      IF e = d
                      THEN [tasks[e] EXCEPT !.pc = "analyzing", !.files = files, !.i = i,
                                            !.file = file, !.bad = bad,
                                            !.results = results]
                      ELSE [tasks[e] EXCEPT !.results = results]]
    /\ calls' = Called(d, "ai")
    /\ UNCHANGED comments

\* the call of analyzeCode for file i of the listing, whatever the file is
\* (results are the positions of the files whose analysis the loop has
\* pushed to analysisResults)
AnalyzeFile(d, files, i, bad, results) ==
    /\ \E file \in ListedFiles :
          tasks' = [tasks EXCEPT ![d].pc = "analyzing", ![d].files = files, ![d].i = i,
                                 ![d].file = file, ![d].bad = bad,
                                 ![d].results = results]
    /\ calls' = Called(d, "ai")
    /\ UNCHANGED comments

FilesListedIgnoresFailure ==
    /\ \E d \in Deliveries :
        /\ tasks[d].pc = "listing"
        /\ \/ /\ tasks' = [Goto(d, "posting") EXCEPT ![d].body = Body("summary", "", <<>>),
                                                     ![d].failed = "listing"]
              /\ calls' = Called(d, "post")
              /\ UNCHANGED comments
           \/ \E n \in 0 .. MaxFiles :
                IF n = 0 THEN PostSummary(d, <<>>, "") ELSE AnalyzeFile(d, n, 1, "", <<>>)
    /\ UNCHANGED <<webhookSecret, impl, aiApiKey, delivered, req, handled, responses, immediateQueue>>

\* getPRFiles settles: it rejects, or resolves to a listing of n files
FilesListed ==
    /\ \E d \in Deliveries :
        /\ tasks[d].pc = "listing"
        /\ \/ \E message \in ListingErrors : Catch(d, "listing", message)
           \/ \E n \in 0 .. MaxFiles :
                IF n = 0 THEN PostSummary(d, <<>>, "") ELSE AnalyzeFile(d, n, 1, "", <<>>)
    /\ UNCHANGED <<webhookSecret, impl, aiApiKey, delivered, req, handled, responses, immediateQueue>>

\* completions of the AI client while the server runs: a rejection, an
\* answer with a high issue, one without the issues member, the text
\* 'null', one with an issue but no suggestions
ServerCompletions ==
    {Completion("reject", <<>>)} \cup
    {Completion("content", text) : text \in {<<2, 3, 2>>, <<2, 0, 1>>, <<0>>, <<2, 3, 0>>}}

\* analysisResults.unshift in place of push
pushFirst(analysisResults, i) == <<i>> \o analysisResults

\* analysisResults.push({filename: file.filename, ...}) for file i of the
\* listing
push(analysisResults, i) == Append(analysisResults, i)

\* the TypeError of reading aiAnalysis.issues.length
IssuesLengthError(aiAnalysis) ==
    IF aiAnalysis.kind = "null"
    THEN "Cannot read properties of null (reading 'issues')"
    ELSE IF aiAnalysis.issues.t = "null"
    THEN "Cannot read properties of null (reading 'length')"
    ELSE "Cannot read properties of undefined (reading 'length')"

\* the TypeError generateSummaryComment raises on analyses that raise bad
\* followed by aiAnalysis: the reduce that counts critical issues runs over
\* all of them before the map that reads suggestions.length
SummaryError(bad, aiAnalysis) ==
    LET filterError == "r.aiAnalysis.issues.filter is not a function"
    IN  IF bad = filterError \/ ~SummaryThrows(aiAnalysis) THEN bad
        ELSE IF aiAnalysis.issues.t # "array" THEN filterError
        ELSE IF bad # "" THEN bad
        ELSE IF aiAnalysis.suggestions.t = "null"
        THEN "Cannot read properties of null (reading 'length')"
        ELSE "Cannot read properties of undefined (reading 'length')"

\* a loop that calls analyzeCode once more for a file whose completion was
\* rejected
FileAnalyzedRetriesOnce ==
    /\ \E d \in Deliveries :
        /\ tasks[d].pc = "analyzing"
        /\ \E completion \in ServerCompletions :
              LET aiAnalysis == analyzeCode(aiApiKey, completion).ret
                  bad == SummaryError(tasks[d].bad, aiAnalysis)
                  results == push(tasks[d].results, tasks[d].i)
              IN  IF completion.kind = "reject" /\ calls[d].ai = tasks[d].i
                  THEN AnalyzeFile(d, tasks[d].files, tasks[d].i, tasks[d].bad,
                                   tasks[d].results)
                  ELSE IF IssuesLengthThrows(aiAnalysis)
                  THEN Catch(d, "analysis", IssuesLengthError(aiAnalysis))
                  ELSE IF tasks[d].i < tasks[d].files
                  THEN AnalyzeFile(d, tasks[d].files, tasks[d].i + 1, bad, results)
                  ELSE PostSummary(d, results, bad)
    /\ UNCHANGED <<webhookSecret, impl, aiApiKey, delivered, req, handled, responses, immediateQueue>>

\* analyzeCode settles and the loop body runs: analyzeCode never rejects,
\* but reading aiAnalysis.issues.length throws when what it returned has no
\* issues; otherwise the loop goes on to the next file, or ends
FileAnalyzed ==
    /\ \E d \in Deliveries :
        /\ tasks[d].pc = "analyzing"
        /\ \E completion \in ServerCompletions :
              LET aiAnalysis == analyzeCode(aiApiKey, completion).ret
                  bad == SummaryError(tasks[d].bad, aiAnalysis)
                  results == push(tasks[d].results, tasks[d].i)
              IN  IF IssuesLengthThrows(aiAnalysis)
                  THEN Catch(d, "analysis", IssuesLengthError(aiAnalysis))
                  ELSE IF tasks[d].i < tasks[d].files
                  THEN AnalyzeFile(d, tasks[d].files, tasks[d].i + 1, bad, results)
                  ELSE PostSummary(d, results, bad)
    /\ UNCHANGED <<webhookSecret, impl, aiApiKey, delivered, req, handled, responses, immediateQueue>>

\* a try block that goes on after the summary was posted and throws
SummaryPostedThenCaught ==
    /\ \E d \in Deliveries :
        /\ tasks[d].pc = "posting"
        /\ tasks' = [Goto(d, "errorPosting") EXCEPT
                        ![d].body = Body("error", PostingError, <<>>),
                        ![d].failed = "posting"]
        /\ calls' = Called(d, "post")
        /\ \/ UNCHANGED comments
           \/ comments' = [comments EXCEPT ![d] = Append(@, "review")]
    /\ UNCHANGED <<webhookSecret, impl, aiApiKey, delivered, req, handled, responses, immediateQueue>>

SummaryPostedTwice ==
    /\ \E d \in Deliveries :
        /\ tasks[d].pc = "posting"
        /\ tasks' = Finish(d, "reviewed")
        /\ comments' = [comments EXCEPT ![d] = @ \o <<"review", "review">>]
        /\ UNCHANGED calls
    /\ UNCHANGED <<webhookSecret, impl, aiApiKey, delivered, req, handled, responses, immediateQueue>>

\* postSummaryReview of the summary settles
SummaryPosted ==
    /\ \E d \in Deliveries :
        /\ tasks[d].pc = "posting"
        /\ \/ Catch(d, "posting", PostingError)
           \/ /\ tasks' = Finish(d, "reviewed")
              /\ comments' = [comments EXCEPT ![d] = Append(@, "review")]
              /\ UNCHANGED calls
    /\ UNCHANGED <<webhookSecret, impl, aiApiKey, delivered, req, handled, responses, immediateQueue>>

\* postReviewComment of the acknowledgment settles; postReviewComment wraps
\* the error of a rejected call
AcknowledgmentPosted ==
    /\ \E d \in Deliveries :
        /\ tasks[d].pc = "acknowledging"
        /\ \/ Catch(d, "posting", "Failed to post review comment: Validation Failed")
           \/ /\ tasks' = Finish(d, "acknowledged")
              /\ comments' = [comments EXCEPT ![d] = Append(@, "acknowledgment")]
              /\ UNCHANGED calls
    /\ UNCHANGED <<webhookSecret, impl, aiApiKey, delivered, req, handled, responses, immediateQueue>>

\* the catch block without its inner try/catch: a failed post of the error
\* comment rejects the promise of processPR
ErrorCommentFailureEscapes ==
    /\ \E d \in Deliveries :
        /\ tasks[d].pc = "errorPosting"
        /\ \/ /\ tasks' = Finish(d, "rejected")
              /\ UNCHANGED comments
           \/ /\ tasks' = Finish(d, "errorComment")
              /\ comments' = [comments EXCEPT ![d] = Append(@, "error")]
        /\ UNCHANGED calls
    /\ UNCHANGED <<webhookSecret, impl, aiApiKey, delivered, req, handled, responses, immediateQueue>>

ErrorCommentRetried ==
    /\ \E d \in Deliveries :
        /\ tasks[d].pc = "errorPosting"
        /\ \/ /\ calls[d].post < 3
              /\ Catch(d, tasks[d].failed, PostingError)
           \/ /\ tasks' = Finish(d, "errorComment")
              /\ comments' = [comments EXCEPT ![d] = Append(@, "error")]
              /\ UNCHANGED calls
    /\ UNCHANGED <<webhookSecret, impl, aiApiKey, delivered, req, handled, responses, immediateQueue>>

\* the post of the error comment settles; a failure is only logged
ErrorCommentPosted ==
    /\ \E d \in Deliveries :
        /\ tasks[d].pc = "errorPosting"
        /\ \/ /\ tasks' = Finish(d, "gaveUp")
              /\ UNCHANGED comments
           \/ /\ tasks' = Finish(d, "errorComment")
              /\ comments' = [comments EXCEPT ![d] = Append(@, "error")]
        /\ UNCHANGED calls
    /\ UNCHANGED <<webhookSecret, impl, aiApiKey, delivered, req, handled, responses, immediateQueue>>

Next ==
    /\ UNCHANGED <<verifyVars, filterVars, analyzeVars, unitVars>>
    /\ \/ Deliver
       \/ RunImmediate
       \/ FilesListed
       \/ FileAnalyzed
       \/ SummaryPosted
       \/ AcknowledgmentPosted
       \/ ErrorCommentPosted

\* the handler alone, on every delivery
NextIngress ==
    /\ UNCHANGED <<verifyVars, filterVars, analyzeVars, unitVars>>
    /\ DeliverAny

Spec == Init /\ [][Next]_vars

\* the handler reads neither the processing service nor the AI key
InitIngress ==
    /\ Init
    /\ impl = "review"
    /\ aiApiKey = Undefined

SpecIngress == InitIngress /\ [][NextIngress]_vars

\* the verifier alone
NextVerify ==
    /\ UNCHANGED <<ingressVars, filterVars, analyzeVars, unitVars>>
    /\ VerifyCall

SpecVerify == InitVerify /\ [][NextVerify]_vars

\* the event filters alone
NextFilter ==
    /\ UNCHANGED <<ingressVars, verifyVars, analyzeVars, unitVars>>
    /\ FilterCall

SpecFilter == InitFilter /\ [][NextFilter]_vars

\* the AI service alone
NextAnalyze ==
    /\ UNCHANGED <<ingressVars, verifyVars, filterVars, unitVars>>
    /\ AnalyzeCall

SpecAnalyze == InitAnalyze /\ [][NextAnalyze]_vars

\* the file selection alone
NextSelect ==
    /\ UNCHANGED <<ingressVars, verifyVars, filterVars, analyzeVars, ratingVars, startupVars,
                 parseVars, promptVars>>
    /\ SelectCall

SpecSelect == InitSelect /\ [][NextSelect]_vars

\* the payload parser alone
NextParse ==
    /\ UNCHANGED <<ingressVars, verifyVars, filterVars, analyzeVars, selectVars, ratingVars,
                   startupVars, promptVars>>
    /\ ParseCall

SpecParse == InitParse /\ [][NextParse]_vars

\* the prompts alone
NextPrompt ==
    /\ UNCHANGED <<ingressVars, verifyVars, filterVars, analyzeVars, selectVars, ratingVars,
                   startupVars, parseVars>>
    /\ PromptCall

SpecPrompt == InitPrompt /\ [][NextPrompt]_vars

\* the start-up of the server and its health endpoint
NextStartup ==
    /\ UNCHANGED <<ingressVars, verifyVars, filterVars, analyzeVars, selectVars, ratingVars,
                 parseVars, promptVars>>
    /\ \/ Validate
       \/ Listen
       \/ Health

SpecStartup == InitStartup /\ [][NextStartup]_vars

\* a delivery reaches the router of a server that is listening
Serve ==
    /\ proc.state = "listening"
    /\ DeliverAny
    /\ UNCHANGED startupVars

\* the server from its start-up on: it validates its configuration,
\* listens, and handles the deliveries that arrive
NextServe ==
    /\ UNCHANGED <<verifyVars, filterVars, analyzeVars, selectVars, ratingVars,
                 parseVars, promptVars>>
    /\ \/ Validate /\ UNCHANGED ingressVars
       \/ Listen /\ UNCHANGED ingressVars
       \/ Serve

\* neither the start-up code nor the router reads the processing service
\* or the name of the model
InitServe ==
    /\ InitStartup
    /\ impl = "review"
    /\ env.GROQ_MODEL = Undefined

SpecServe == InitServe /\ [][NextServe]_vars

\* the PR-level rating alone
NextRating ==
    /\ UNCHANGED <<ingressVars, verifyVars, filterVars, analyzeVars, selectVars, startupVars,
                 parseVars, promptVars>>
    /\ RatingCall

SpecRating == InitRating /\ [][NextRating]_vars

\* one processPR invocation alone: the server has accepted one delivery (an
\* opened PR of a public repository, a synchronized PR of a private one, or
\* a PR ready for review of a repository without a private field) and takes
\* no other
InitProcess ==
    /\ webhookSecret = Str(<<107>>)
    /\ impl \in {"review", "acknowledge"}
    /\ aiApiKey \in {Undefined, Str(<<103>>)}
    /\ delivered = 1
    /\ \E bytes \in {<<1, 1, 1>>, <<2, 2, 2>>, <<3, 1, 3>>} :
          LET request == Request("application/json", bytes, "valid", "pull_request")
              out == githubHandler(webhookSecret, request)
          IN  /\ req = request
              /\ handled = out
              /\ responses = [d \in Deliveries |-> IF d = 1 THEN out.res ELSE <<>>]
              /\ tasks = [d \in Deliveries |->
                            IF d = 1
                            THEN [NoTask EXCEPT !.pc = "scheduled", !.prInfo = out.prInfo]
                            ELSE NoTask]
    /\ immediateQueue = <<1>>
    /\ calls = [d \in Deliveries |-> NoCalls]
    /\ comments = [d \in Deliveries |-> <<>>]
    /\ vIn = NoInput
    /\ vOut = NoOutput
    /\ fIn = NoFilterInput
    /\ fOut = NoFilterOutput
    /\ aIn = NoAnalyzeInput
    /\ aOut = NoAnalyzeOutput
    /\ IdleUnits

NextProcess ==
    /\ UNCHANGED <<verifyVars, filterVars, analyzeVars, unitVars>>
    /\ \/ RunImmediate
       \/ FilesListed
       \/ FileAnalyzed
       \/ SummaryPosted
       \/ AcknowledgmentPosted
       \/ ErrorCommentPosted

SpecProcess == InitProcess /\ [][NextProcess]_vars

\* the first delivery of a server arrives, whatever it is
Respond ==
    /\ delivered = 0
    /\ DeliverAny

\* one request from its arrival to the end of the processing it started
NextRespond ==
    /\ UNCHANGED <<verifyVars, filterVars, analyzeVars, unitVars>>
    /\ \/ Respond
       \/ RunImmediate
       \/ FilesListed
       \/ FileAnalyzed
       \/ SummaryPosted
       \/ AcknowledgmentPosted
       \/ ErrorCommentPosted

SpecRespond == Init /\ [][NextRespond]_vars

\* two processPR invocations in flight: the server has accepted, one after
\* the other, an opened PR of a public repository and a PR ready for review
\* of another repository, has answered both, and takes no other delivery;
\* their steps interleave at every await
InitPair ==
    /\ webhookSecret = Str(<<107>>)
    /\ impl \in {"review", "acknowledge"}
    /\ aiApiKey \in {Undefined, Str(<<103>>)}
    /\ delivered = 2
    /\ LET first == Request("application/json", <<1, 1, 1>>, "valid", "pull_request")
           second == Request("application/json", <<3, 1, 3>>, "valid", "pull_request")
           out1 == githubHandler(webhookSecret, first)
           out2 == githubHandler(webhookSecret, second)
       IN  /\ req = second
           /\ handled = out2
           /\ responses = [d \in Deliveries |->
                             IF d = 1 THEN out1.res ELSE IF d = 2 THEN out2.res ELSE <<>>]
           /\ tasks = [d \in Deliveries |->
                         IF d = 1
                         THEN [NoTask EXCEPT !.pc = "scheduled", !.prInfo = out1.prInfo]
                         ELSE IF d = 2
                         THEN [NoTask EXCEPT !.pc = "scheduled", !.prInfo = out2.prInfo]
                         ELSE NoTask]
    /\ immediateQueue = <<1, 2>>
    /\ calls = [d \in Deliveries |-> NoCalls]
    /\ comments = [d \in Deliveries |-> <<>>]
    /\ vIn = NoInput
    /\ vOut = NoOutput
    /\ fIn = NoFilterInput
    /\ fOut = NoFilterOutput
    /\ aIn = NoAnalyzeInput
    /\ aOut = NoAnalyzeOutput
    /\ IdleUnits

SpecPair == InitPair /\ [][NextProcess]_vars

\* the event loop runs every callback registered with setImmediate, and
\* every awaited call of the GitHub and AI clients settles
ProcessFairness ==
    /\ WF_ingressVars(RunImmediate)
    /\ WF_ingressVars(FilesListed)
    /\ WF_ingressVars(FileAnalyzed)
    /\ WF_ingressVars(SummaryPosted)
    /\ WF_ingressVars(AcknowledgmentPosted)
    /\ WF_ingressVars(ErrorCommentPosted)

SpecProcessFair == SpecProcess /\ ProcessFairness

----------------------------------------------------------------------------
(* Properties *)

DiffersInOneByte(a, b) ==
    /\ Len(a) = Len(b)
    /\ Cardinality({i \in 1 .. Len(a) : a[i] # b[i]}) = 1

\* number of setImmediate callbacks registered for delivery d and not yet run
Queued(d) == Cardinality({k \in 1 .. Len(immediateQueue) : immediateQueue[k] = d})

\* processPR was neither scheduled nor invoked for delivery d
NotScheduled(d) ==
    /\ Queued(d) = 0
    /\ tasks[d] = NoTask
    /\ calls[d] = NoCalls
    /\ comments[d] = <<>>

\* the signature check of the delivery handled last, recomputed
LastVerified == verifyGitHubSignature(webhookSecret, RawBody(req), req.signature).ret
\* the payload of the delivery handled last, parsed anew
LastPayload == JSONparse(BodyToString(RawBody(req)))
\* the payload lacks nothing that extractPRInfo dereferences
Extractable(payload) ==
    /\ payload.kind = "object"
    /\ payload.pull_request.present /\ payload.pull_request.head /\ payload.pull_request.base
    /\ payload.repository.present /\ payload.repository.owner

\* C1: a delivery whose signature check returns false is answered 401
\* 'Invalid signature', once, and no processPR is scheduled for it.
C1_InvalidSignatureRejected ==
    (delivered > 0 /\ LastVerified = "false") =>
        /\ responses[delivered] = <<ErrorResponse(401, "Invalid signature")>>
        /\ NotScheduled(delivered)

C1_Witness ==
    /\ delivered > 0
    /\ Truthy(webhookSecret)
    /\ req.sent = "invalid"
    /\ req.event = "pull_request"
    /\ LastPayload.action = "opened"
    /\ Extractable(LastPayload)
    /\ responses[delivered][1].status = 401

\* C2: with a configured secret the verifier returns true on the header
\* computed for the body, and false when the header or the body differs
\* from the signed pair in exactly one byte.
C2_SignatureRoundTrip ==
    (vOut # NoOutput /\ Truthy(vIn.secret) /\ vIn.body.t \in {"buffer", "string"}) =>
        LET delivered_ == vIn.body.s
            header == vIn.signature.s
        IN  /\ (vIn.signature = Str(githubSignature(vIn.secret.s, delivered_)))
                   => vOut.ret = "true"
            /\ (/\ vIn.signature.t = "string"
                /\ delivered_ = vIn.signed
                /\ DiffersInOneByte(header, githubSignature(vIn.secret.s, vIn.signed)))
                   => vOut.ret = "false"
            /\ (/\ vIn.signature = Str(githubSignature(vIn.secret.s, vIn.signed))
                /\ DiffersInOneByte(delivered_, vIn.signed))
                   => vOut.ret = "false"

C2_Witness ==
    /\ vIn.how = "signatureMutated"
    /\ \E i \in 1 .. Len(vIn.signature.s) : vIn.signature.s[i] > 127
    /\ vOut.ret = "false"

\* C3: without a signature header (null, undefined or empty) the verifier
\* returns false, whether or not a secret is configured.
C3_AbsentHeaderRejected ==
    (vOut # NoOutput /\ (vIn.signature \in {Null, Undefined, Str(<<>>)})) =>
        vOut = [ret |-> "false", hmac |-> FALSE]

C3_Witness ==
    /\ vIn.how = "absent"
    /\ vIn.secret \in NoSecrets
    /\ vIn.signature = Str(<<>>)
    /\ vOut.ret = "false"

\* C4: with no secret configured and a header present the verifier returns
\* true for any body and header, and computes no HMAC.
C4_OpenModeAccepts ==
    (/\ vOut # NoOutput
     /\ vIn.secret \in {Undefined, Null, Str(<<>>)}
     /\ vIn.signature.t = "string" /\ vIn.signature.s # <<>>) =>
        vOut = [ret |-> "true", hmac |-> FALSE]

C4_Witness ==
    /\ vIn.how = "open"
    /\ vIn.secret = Undefined
    /\ vIn.body = EmptyObject
    /\ vIn.signature = Str(<<233>>)
    /\ vOut.ret = "true"

\* the acceptance response for a payload, written out member by member
Echo(payload) ==
    [status |-> 200, error |-> "<absent>",
     message |-> "Webhook received and processing started",
     pullRequest |-> payload.pull_request.number,
     repository |-> <<"octo", "/", payload.repository.name>>,
     action |-> payload.action]

\* the delivery handled last passed the signature check, is a pull_request
\* event and carries a payload that parses and extracts
LastIsPullRequest ==
    /\ delivered > 0
    /\ LastVerified = "true"
    /\ req.event = "pull_request"
    /\ Extractable(LastPayload)

\* delivery d was answered with the acceptance response
WasAccepted(d) ==
    /\ Len(responses[d]) = 1
    /\ responses[d][1].message = "Webhook received and processing started"

\* C5: a verified pull_request delivery with a parseable payload and an
\* allowed action is answered 200 'Webhook received and processing started'
\* with the PR number, '<owner>/<repo>' and the action of the payload, and
\* exactly one processPR is scheduled for it; every accepted delivery has
\* its own invocation, also when two deliveries carry the same event.
C5_AcceptedEchoAndScheduledOnce ==
    /\ (LastIsPullRequest
          /\ LastPayload.action \in {"opened", "synchronize", "ready_for_review"}) =>
            /\ responses[delivered] = <<Echo(LastPayload)>>
            /\ tasks[delivered].prInfo.pullNumber = LastPayload.pull_request.number
    /\ \A d \in Deliveries :
          WasAccepted(d) => Queued(d) = 1 /\ tasks[d].pc = "scheduled"

C5_Witness ==
    /\ delivered = 2
    /\ WasAccepted(1)
    /\ responses[2] = responses[1]
    /\ immediateQueue = <<1, 2>>
    /\ LastPayload.action = "ready_for_review"

\* C6: whenever a processPR invocation has started, the response of its
\* delivery has already been sent, and a response once sent never changes,
\* whatever processPR does afterwards.
C6_ResponseBeforeProcessing ==
    /\ [](\A d \in Deliveries :
            tasks[d].pc \notin {"none", "scheduled"} => WasAccepted(d))
    /\ [][\A d \in Deliveries : responses[d] # <<>> => responses'[d] = responses[d]]_vars

C6_Witness ==
    \E d \in Deliveries :
        /\ tasks[d].outcome = "gaveUp"
        /\ calls[d].post = 2
        /\ WasAccepted(d)

\* C7 as claimed: a verified delivery that is not a pull_request event, or
\* is one with an action outside the allow-list, is answered 200
\* {message: 'Event ignored'} and nothing is scheduled.
C7_IgnoredAsClaimed ==
    (/\ delivered > 0
     /\ LastVerified = "true"
     /\ \/ req.event # "pull_request"
        \/ /\ Extractable(LastPayload)
           /\ LastPayload.action \notin {"opened", "synchronize", "ready_for_review"}) =>
        /\ responses[delivered] = <<MessageResponse("Event ignored")>>
        /\ NotScheduled(delivered)

\* C7 amended: a verified delivery that is not a pull_request event is
\* answered 200 {message: 'Event ignored'}; a verified pull_request
\* delivery whose payload parses and extracts and whose action is outside
\* the allow-list is answered 200 {message: 'Action ignored'}; in both
\* cases nothing is scheduled.
C7_IgnoredEventOrAction ==
    /\ (delivered > 0 /\ LastVerified = "true" /\ req.event # "pull_request") =>
            /\ responses[delivered] = <<MessageResponse("Event ignored")>>
            /\ NotScheduled(delivered)
    /\ (LastIsPullRequest
          /\ LastPayload.action \notin {"opened", "synchronize", "ready_for_review"}) =>
            /\ responses[delivered] = <<MessageResponse("Action ignored")>>
            /\ NotScheduled(delivered)

C7_Witness ==
    /\ LastIsPullRequest
    /\ LastPayload.action = "closed"
    /\ responses[delivered][1].message = "Action ignored"

\* C8: a verified pull_request delivery whose body is not JSON, or whose
\* payload lacks an object the extractor dereferences, is answered 500
\* 'Internal server error' and nothing is scheduled.
C8_MalformedPayloadRejected ==
    (/\ delivered > 0
     /\ LastVerified = "true"
     /\ req.event = "pull_request"
     /\ ~Extractable(LastPayload)) =>
        /\ responses[delivered] = <<ErrorResponse(500, "Internal server error")>>
        /\ NotScheduled(delivered)

C8_Witness ==
    /\ delivered > 0
    /\ LastVerified = "true"
    /\ req.event = "pull_request"
    /\ LastPayload.kind = "object"
    /\ LastPayload.action = "opened"
    /\ ~LastPayload.repository.present
    /\ responses[delivered][1].status = 500

C10_PrivateRepositorySkipped ==
    \A d \in Deliveries :
        (tasks[d].pc \notin {"none", "scheduled"} /\ ~tasks[d].prInfo.isPublic) =>
            /\ calls[d] = NoCalls
            /\ comments[d] = <<>>
            /\ tasks[d].pc = "done"

\* the processPR invocation of delivery d has returned
Done(d) == tasks[d].pc = "done"

\* C11: when the file listing fails, processPR makes no AI call and posts
\* no summary review; it makes one posting call, whose body is an error
\* report quoting the message of the listing error.
C11_ListingFailureReported ==
    \A d \in Deliveries :
        tasks[d].failed = "listing" =>
            /\ calls[d].ai = 0
            /\ calls[d].post = 1
            /\ tasks[d].pc \in {"errorPosting", "done"}
            /\ tasks[d].pc = "errorPosting" =>
                  /\ tasks[d].body.kind = "error"
                  /\ tasks[d].body.message \in ListingErrors
            /\ comments[d] \in {<<>>, <<"error">>}

C11_Witness ==
    \E d \in Deliveries :
        /\ tasks[d].failed = "listing"
        /\ tasks[d].pc = "errorPosting"
        /\ tasks[d].body = [kind |-> "error", message |-> "Bad credentials", sections |-> <<>>]
        /\ calls[d] = [listing |-> 1, ai |-> 0, post |-> 1]

\* C12 as claimed: a failure while reviewing one file (an AI answer without
\* an issues array, or the answer null) never sends processPR into its
\* catch block: the loop goes on and the summary is posted.
C12_FileFailureKeepsLoop ==
    \A d \in Deliveries : tasks[d].failed \notin {"analysis", "summary"}

\* C13: when the chat-completion call rejects, analyzeCode does not raise
\* and returns rating 3, issues [] and a suggestions list.
C13_RejectionGivesFallback ==
    (aOut.called /\ aIn.completion.kind = "reject") =>
        /\ ~aOut.analysis.threw
        /\ aOut.analysis.ret.kind = "object"
        /\ aOut.analysis.ret.rating = Num(3)
        /\ aOut.analysis.ret.issues = Arr(<<>>)
        /\ aOut.analysis.ret.suggestions.t = "array"

C13_Witness ==
    /\ aOut.called
    /\ aIn.completion.kind = "reject"
    /\ aIn.apiKey = Str(<<103>>)
    /\ aOut.analysis.apiCalls = 1
    /\ aOut.analysis.ret.suggestions.s[1].literal = "AI service temporarily unavailable"

\* rating is an integer in 1..5, issues and suggestions are lists
WellFormedAnalysis(aiAnalysis) ==
    /\ aiAnalysis.kind = "object"
    /\ IsInteger(aiAnalysis.rating)
    /\ aiAnalysis.rating.s[1] \in 1 .. 5
    /\ aiAnalysis.issues.t = "array"
    /\ aiAnalysis.suggestions.t = "array"

\* C14 as claimed: every result of analyzeCode has an integer rating in
\* 1..5 and lists as issues and suggestions.
C14_AnalysisWellFormed ==
    aOut.called => (~aOut.analysis.threw /\ WellFormedAnalysis(aOut.analysis.ret))

\* C15: without an AI API key analyzeCode returns the fallback analysis and
\* reviewCode (given a file content) the placeholder review, and neither
\* calls the chat-completion API.
C15_NoKeyNoApiCall ==
    (aOut.called /\ aIn.apiKey \in {Undefined, Null, Str(<<>>)}) =>
        /\ aOut.analysis =
              [threw |-> FALSE, apiCalls |-> 0,
               ret |-> [kind |-> "object", rating |-> Num(3), issues |-> Arr(<<>>),
                        suggestions |->
                            Arr(<<Literal("AI service temporarily unavailable")>>)]]
        /\ aOut.review.apiCalls = 0
        /\ aIn.fileContent.t = "string" =>
              aOut.review = [threw |-> FALSE, ret |-> "placeholder", apiCalls |-> 0]

C15_Witness ==
    /\ aOut.called
    /\ aIn.apiKey = Str(<<>>)
    /\ aIn.completion = Completion("content", <<2, 3, 2>>)
    /\ aIn.fileContent = Str(<<120>>)
    /\ aOut.review.ret = "placeholder"
    /\ aOut.analysis.apiCalls = 0

\* C16: a processPR invocation for a public repository returns; when
\* neither its listing call nor a posting call failed it has posted exactly
\* one review; and no invocation ever posts more than one.
C16_ExactlyOneReview ==
    /\ \A d \in Deliveries :
          (tasks[d].pc = "scheduled" /\ tasks[d].prInfo.isPublic) ~> Done(d)
    /\ [](\A d \in Deliveries :
            /\ Len(comments[d]) <= 1
            /\ (/\ Done(d)
                /\ tasks[d].prInfo.isPublic
                /\ tasks[d].failed \notin {"listing", "posting"}
                /\ tasks[d].outcome # "gaveUp") => Len(comments[d]) = 1)

C16_Witness ==
    \E d \in Deliveries :
        /\ Done(d)
        /\ tasks[d].prInfo.isPublic
        /\ tasks[d].failed = ""
        /\ calls[d].ai >= 2
        /\ comments[d] = <<"review">>

C18_NeverSilent ==
    \A d \in Deliveries :
        (Done(d) /\ tasks[d].prInfo.isPublic) => comments[d] # <<>>

\* C18 amended: an invocation for a public repository returns with a review
\* or an error comment posted on the PR, or after a posting call of an
\* error comment that failed.
C18_SilentOnlyAfterFailedPost ==
    \A d \in Deliveries :
        (Done(d) /\ tasks[d].prInfo.isPublic) =>
            \/ comments[d] \in {<<"review">>, <<"error">>, <<"acknowledgment">>}
            \/ /\ comments[d] = <<>>
               /\ tasks[d].outcome = "gaveUp"
               /\ calls[d].post >= 1

C18_Witness ==
    \E d \in Deliveries :
        /\ Done(d)
        /\ tasks[d].prInfo.isPublic
        /\ tasks[d].failed = "listing"
        /\ tasks[d].outcome = "gaveUp"
        /\ calls[d].post = 1
        /\ comments[d] = <<>>

\* C19 as claimed: every file that processPR hands to analyzeCode passes
\* the file-selection policy.
C19_OnlyReviewableFilesAnalyzed ==
    \A d \in Deliveries :
        tasks[d].pc = "analyzing" => shouldReviewFile(tasks[d].file)

\* C20 as claimed: for a PR whose listing is empty the body that processPR
\* posts is the note that no reviewable files were found.
C20_NoReviewableFilesNote ==
    \A d \in Deliveries :
        (tasks[d].pc = "posting" /\ tasks[d].body.sections = <<>>) =>
            tasks[d].body.kind = "note"

----------------------------------------------------------------------------
(* File selection *)

Eligible(file) ==
    /\ file.status # "removed"
    /\ ~file.binary
    /\ file.changes <= 500
    /\ file.extension \in supportedExtensions

\* positions of the eligible files of a list, and the k-th of them
EligiblePositions(files) == {k \in 1 .. Len(files) : Eligible(files[k])}
KthEligible(files, k) ==
    CHOOSE p \in EligiblePositions(files) :
        Cardinality({q \in EligiblePositions(files) : q <= p}) = k

----------------------------------------------------------------------------
(* The summary *)

\* C23: the per-file sections of the summary processPR posts are in the
\* order of the file listing (section k is about file k of the listing),
\* whatever the AI calls returned and whenever they settled.
C23_SectionsInListingOrder ==
    \A d \in Deliveries :
        (tasks[d].pc = "posting" /\ tasks[d].body.kind = "summary") =>
            \A k \in 1 .. Len(tasks[d].body.sections) : tasks[d].body.sections[k] = k

\* a summary of two files or more is being posted after as many AI calls
C23_Witness ==
    \E d \in Deliveries :
        /\ tasks[d].pc = "posting"
        /\ Len(tasks[d].body.sections) >= 2
        /\ calls[d].ai = Len(tasks[d].body.sections)

\* C24 as claimed: the PR-level rating is an integer in 1..5 for every list
\* of per-file results (it is the rounded mean of the per-file ratings, a
\* missing or zero rating counted as 3, and 3 when no file was analysed).
C24_RatingInRange ==
    gOut.called =>
        /\ ~gOut.overallRating.nan
        /\ gOut.overallRating.n \in 1 .. 5

----------------------------------------------------------------------------
(* The boundary of processPR *)

\* the ways the promise of processPR resolves: after the early return for a
\* private repository, after the summary or the acknowledgment was posted,
\* and, from the catch block, after the error comment was posted or its
\* post failed and was logged
Resolutions == {"skipped", "reviewed", "acknowledged", "errorComment", "gaveUp"}

\* C25: processPR never rejects: whatever listing, AI and posting calls
\* fail, an invocation that has ended has resolved, so the scheduled task
\* gives no unhandled rejection and the process goes on.
C25_ProcessPRNeverRejects ==
    \A d \in Deliveries :
        /\ tasks[d].outcome \in Resolutions \cup {"none"}
        /\ tasks[d].pc = "done" => tasks[d].outcome \in Resolutions

\* an invocation ended after its summary post and then its error-comment
\* post both failed
C25_Witness ==
    \E d \in Deliveries :
        /\ tasks[d].pc = "done"
        /\ tasks[d].failed = "posting"
        /\ tasks[d].outcome = "gaveUp"
        /\ calls[d].post = 2
        /\ comments[d] = <<>>

\* what an invocation owns: its position and locals, the calls it made,
\* what it got posted
Own(d) == <<tasks[d], calls[d], comments[d]>>

\* C26: two invocations for different PRs that interleave at their awaits
\* do not affect each other: a step of one leaves everything of the other
\* as it was, and the summary each posts has the sections of its own files
\* only, one per AI call it made itself, in its own listing order.
C26_InvocationsIndependent ==
    /\ [][\A d \in Deliveries :
            Own(d)' # Own(d) => \A e \in Deliveries \ {d} : Own(e)' = Own(e)]_vars
    /\ [](\A d \in Deliveries :
            (tasks[d].pc = "posting" /\ tasks[d].body.kind = "summary") =>
                /\ Len(tasks[d].body.sections) = calls[d].ai
                /\ \A k \in 1 .. calls[d].ai : tasks[d].body.sections[k] = k)

\* one invocation is posting the summary of its two files while the other,
\* for another PR, awaits the analysis of its first file
C26_Witness ==
    \E d, e \in Deliveries :
        /\ tasks[d].prInfo # tasks[e].prInfo
        /\ tasks[d].pc = "posting"
        /\ Len(tasks[d].body.sections) = 2
        /\ tasks[e].pc = "analyzing"
        /\ tasks[e].i = 1

----------------------------------------------------------------------------
(* Start-up *)

\* the required variables that are unset
Unset == {key \in {"GITHUB_TOKEN", "GITHUB_WEBHOOK_SECRET"} : env[key] = Undefined}

C27_WitnessPlaceholder ==
    /\ proc.state = "listening"
    /\ env.GROQ_API_KEY = Undefined

----------------------------------------------------------------------------
(* Payload parsing *)

\* C28: on a form-encoded body whose field 'payload' carries a text,
\* parseWebhookPayload returns what it returns for that text sent as the
\* body with a JSON content type.
C28_FormSameAsJson ==
    (pOut.called /\ pIn.how = "form") => pOut.ret = pOut.direct

\* an object was parsed from a form whose payload, after another field,
\* starts with '&', which the sender wrote as '%26'
C28_Witness ==
    /\ pOut.called
    /\ pIn.how = "form"
    /\ pIn.json[1] = 38
    /\ Len(pIn.body.s) > Len(PayloadName) + 10
    /\ pOut.ret.ret.kind = "object"
    /\ pOut.ret.ret.pull_request.number = 2

\* the body is empty, the form has no field 'payload', or the text given
\* as JSON is not JSON
ParseFailureCase ==
    \/ pIn.how \in {"empty", "nofield"}
    \/ pIn.how \in {"form", "json"} /\ pIn.json \in NotJsonTexts

\* C29: for an empty body, a form without the field 'payload' and a text
\* that is not JSON, parseWebhookPayload returns null: no exception
\* reaches the caller and no object is returned.
C29_FailureIsNull ==
    (pOut.called /\ ParseFailureCase) =>
        /\ ~pOut.ret.threw
        /\ pOut.ret.ret = NullPayload

\* a form whose only field is another one was answered with null
C29_Witness ==
    /\ pOut.called
    /\ pIn.how = "nofield"
    /\ pIn.body = Buf(<<120, 61, 49>>)
    /\ pOut.ret = Parsed(FALSE, NullPayload)

\* a text that follows 'payload=' as it is, unencoded, is not parsed as
\* the text itself is
RawFormDiffers ==
    /\ pOut.called
    /\ pIn.how = "raw"
    /\ pOut.ret # pOut.direct

----------------------------------------------------------------------------
(* Health *)

\* C30 as claimed: GET /webhooks/health answers 200 'healthy' with the
\* services github and ai (provider, status, model), ai.status being
\* 'ready' exactly when an AI API key is configured and 'not_configured'
\* otherwise; a 500 'unhealthy' is sent only when the probe throws, which
\* nothing in it does on a server that started.
C30_HealthyWhenServing ==
    health # NoHealth =>
        /\ health.code = 200
        /\ health.status = "healthy"
        /\ health.services.github = "connected"
        /\ health.services.ai.provider = "groq"
        /\ health.services.ai.model = aiModel(env)
        /\ health.services.ai.status =
               IF Truthy(env.GROQ_API_KEY) THEN "ready" ELSE "not_configured"

\* with the snapshot of the processing service that has healthCheck the
\* answer is as claimed
HealthyOnGuardedSnapshot == impl = "acknowledge" => C30_HealthyWhenServing

----------------------------------------------------------------------------
(* Prompts *)

\* the prompt embeds the content cut at 8000 characters, with the marker
\* exactly when it was cut
CutAtLimit(length, prompt) ==
    /\ prompt.taken <= maxContentLength
    /\ length <= maxContentLength => prompt.taken = length /\ ~prompt.marker
    /\ length > maxContentLength => prompt.taken = maxContentLength /\ prompt.marker

\* C31 as claimed: the prompt sent to the AI embeds at most 8000 characters
\* of the content: a content of at most 8000 characters unchanged, a longer
\* one cut to its first 8000 characters followed by a truncation marker.
C31_PromptContentBounded ==
    (mOut.called /\ mIn.length >= 0 /\ ~mOut.prompt.threw) =>
        CutAtLimit(mIn.length, mOut.prompt)

\* the prompt of reviewCode is cut as claimed
ReviewPromptBounded ==
    (mOut.called /\ mIn.service = "reviewCode" /\ mIn.length >= 0) =>
        CutAtLimit(mIn.length, mOut.prompt)

----------------------------------------------------------------------------
(* The loop over the files *)

\* C32: within one invocation the AI calls are strictly sequential: while
\* the call for file i is awaited it is the only one in flight (i calls
\* were started, and the i - 1 before it have returned and had their
\* result recorded), and outside that await none is in flight.
C32_OneAICallAtATime ==
    \A d \in Deliveries :
        /\ tasks[d].pc = "analyzing" =>
              /\ tasks[d].i \in 1 .. tasks[d].files
              /\ calls[d].ai = tasks[d].i
              /\ tasks[d].results = [k \in 1 .. tasks[d].i - 1 |-> k]
        /\ (tasks[d].pc = "posting" /\ tasks[d].body.kind = "summary") =>
              calls[d].ai = Len(tasks[d].body.sections)

\* the call for the second file is awaited after the first has returned
C32_Witness ==
    \E d \in Deliveries :
        /\ tasks[d].pc = "analyzing"
        /\ tasks[d].files >= 2
        /\ tasks[d].i = 2
        /\ calls[d].ai = 2
        /\ tasks[d].results = <<1>>

----------------------------------------------------------------------------
(* The action filter of the ingress *)

\* C33: the ingress schedules processing for a pull_request delivery
\* exactly when its action is 'opened', 'synchronize' or
\* 'ready_for_review': a verified pull_request delivery whose payload
\* extracts is scheduled (once) if and only if its action is one of the
\* three, and no delivery at all is scheduled with another action.
C33_ScheduledIffTriggerAction ==
    /\ LastIsPullRequest =>
          (Queued(delivered) = 1
              <=> LastPayload.action \in {"opened", "synchronize", "ready_for_review"})
    /\ LastIsPullRequest => Queued(delivered) <= 1
    /\ \A d \in Deliveries :
          Queued(d) > 0 =>
              /\ tasks[d].pc = "scheduled"
              /\ tasks[d].prInfo.action \in {"opened", "synchronize", "ready_for_review"}
    /\ (delivered > 0 /\ Queued(delivered) > 0) =>
          req.event = "pull_request" /\ handled.prInfo.action = LastPayload.action

\* an update ('synchronize') was scheduled and a 'closed' one was not
C33_Witness ==
    /\ delivered = 2
    /\ Queued(1) = 1
    /\ tasks[1].prInfo.action = "synchronize"
    /\ LastIsPullRequest
    /\ LastPayload.action = "closed"
    /\ Queued(2) = 0

----------------------------------------------------------------------------
(* The fallback for an answer that is not JSON *)

\* the AI call succeeded and its text (trimmed, as analyzeCode parses it)
\* is not valid JSON
AnswerIsNotJson ==
    /\ aOut.called
    /\ Truthy(aIn.apiKey)
    /\ aIn.completion.kind = "content"
    /\ ParseAnswer(Trim(aIn.completion.text)).kind = "throw"

\* the suggestion is at most 150 leading characters of the text, followed
\* by '...'; it stops short of 150 only where the text ends
ExcerptOf(suggestion, text) ==
    /\ suggestion.literal = ""
    /\ \E n \in 0 .. 150 :
          /\ n <= Len(text)
          /\ n < 150 => n = Len(text)
          /\ suggestion.text = SubSeq(text, 1, n) \o <<46, 46, 46>>

\* rating 3, no issues and one suggestion, an excerpt of the text as it
\* came or as it was trimmed
DefaultWithExcerpt(analysis, text) ==
    /\ ~analysis.threw
    /\ analysis.ret.kind = "object"
    /\ analysis.ret.rating = Num(3)
    /\ analysis.ret.issues = Arr(<<>>)
    /\ analysis.ret.suggestions.t = "array"
    /\ Len(analysis.ret.suggestions.s) = 1
    /\ \/ ExcerptOf(analysis.ret.suggestions.s[1], text)
       \/ ExcerptOf(analysis.ret.suggestions.s[1], Trim(text))

\* C34 as claimed: when the AI call succeeds but its text is not valid
\* JSON, analyzeCode does not raise and returns rating 3, an empty issues
\* list and exactly one suggestion, a prefix of the text of at most 150
\* characters followed by '...'.
C34_FallbackIsExcerpt ==
    AnswerIsNotJson => DefaultWithExcerpt(aOut.analysis, aIn.completion.text)

\* the claim holds for every text that is not empty once trimmed
ExcerptOfNonEmptyAnswer ==
    (AnswerIsNotJson /\ Trim(aIn.completion.text) # <<>>) =>
        DefaultWithExcerpt(aOut.analysis, aIn.completion.text)

\* a text that is empty once trimmed gets the suggestion of an AI service
\* that could not be reached
EmptyAnswerReportedUnavailable ==
    (AnswerIsNotJson /\ Trim(aIn.completion.text) = <<>>) =>
        /\ ~aOut.analysis.threw
        /\ aOut.analysis.ret.rating = Num(3)
        /\ aOut.analysis.ret.issues = Arr(<<>>)
        /\ aOut.analysis.ret.suggestions =
              Arr(<<Literal("AI service temporarily unavailable")>>)

\* an answer longer than 150 characters was cut
LongAnswerCut ==
    /\ AnswerIsNotJson
    /\ Len(Trim(aIn.completion.text)) > 150
    /\ Len(aOut.analysis.ret.suggestions.s[1].text) = 153

----------------------------------------------------------------------------
(* The secret of a validated server *)

\* the header of the delivery handled last is the HMAC signature of its
\* body under the secret of the server
LastSignatureMatches ==
    /\ Truthy(webhookSecret)
    /\ req.contentType = "application/json"
    /\ req.signature = Str(githubSignature(webhookSecret.s, req.bytes))

\* C35: in a server that passed its start-up validation the webhook secret
\* is non-empty as long as the process lives, so the signature check never
\* runs in its open mode (every delivery it lets through was compared
\* with an HMAC), and a delivery whose signature does not match the HMAC
\* of its body is answered 401 or 500 and nothing is scheduled for it.
C35_ValidatedServerChecksSignatures ==
    /\ proc.state \in {"validated", "listening"} =>
          /\ Truthy(webhookSecret)
          /\ webhookSecret = env.GITHUB_WEBHOOK_SECRET
    /\ delivered > 0 =>
          /\ proc.state = "listening"
          /\ handled.verified.ret = "true" => handled.verified.hmac
          /\ ~LastSignatureMatches =>
                /\ handled.verified.ret # "true"
                /\ Len(responses[delivered]) = 1
                /\ responses[delivered][1].status \in {401, 500}
                /\ NotScheduled(delivered)
    /\ \A d \in Deliveries : d > delivered => responses[d] = <<>>

\* the validated server turned away a forged delivery and then accepted a
\* signed one
C35_Witness ==
    /\ proc.state = "listening"
    /\ delivered = 2
    /\ responses[1][1].status = 401
    /\ LastSignatureMatches
    /\ WasAccepted(2)
    /\ Queued(2) = 1

----------------------------------------------------------------------------
(* Summary review and error comment *)

\* C36: in one processPR invocation at most one post succeeds: the error
\* comment is attempted only while nothing was posted by the invocation, so
\* an invocation never leaves both a summary review and an error comment,
\* and after a posted review no further posting call is made.
C36_ReviewOrErrorComment ==
    \A d \in Deliveries :
        /\ Len(comments[d]) <= 1
        /\ tasks[d].pc = "errorPosting" =>
              /\ comments[d] = <<>>
              /\ tasks[d].body.kind = "error"
        /\ comments[d] = <<"error">> =>
              /\ tasks[d].outcome = "errorComment"
              /\ tasks[d].failed # ""
        /\ comments[d] \in {<<"review">>, <<"acknowledgment">>} =>
              /\ Done(d)
              /\ tasks[d].failed = ""
              /\ calls[d].post = 1

\* the post of the summary failed and the error comment was posted
C36_Witness ==
    \E d \in Deliveries :
        /\ impl = "review"
        /\ Done(d)
        /\ tasks[d].failed = "posting"
        /\ calls[d].post = 2
        /\ comments[d] = <<"error">>

----------------------------------------------------------------------------
(* Responses of the handler *)

\* the path the handler took for the delivery handled last
LastPath ==
    IF handled.verified.ret = "false" THEN "invalid signature"
    ELSE IF handled.verified.ret = "throw" THEN "exception"
    ELSE IF req.event # "pull_request" THEN "ignored event"
    ELSE IF ~Extractable(LastPayload) THEN "exception"
    ELSE IF handled.scheduled = 0 THEN "ignored action"
    ELSE "accepted"

\* C37: the handler sends exactly one HTTP response per request on every
\* path (401 for an invalid signature, 200 for an ignored event, an
\* ignored action and an accepted delivery, 500 for an exception), and the
\* response stays the only one while and after the background processPR
\* runs, finishes or fails.
C37_ExactlyOneResponse ==
    /\ \A d \in Deliveries :
          Len(responses[d]) = IF d <= delivered THEN 1 ELSE 0
    /\ delivered > 0 =>
          /\ responses[delivered] = handled.res
          /\ responses[delivered][1].status =
                CASE LastPath = "invalid signature" -> 401
                  [] LastPath = "exception" -> 500
                  [] OTHER -> 200

\* the background processPR of an accepted delivery has failed and given up
C37_Witness ==
    /\ delivered = 1
    /\ LastPath = "accepted"
    /\ tasks[1].outcome = "gaveUp"
    /\ calls[1].post = 2
    /\ Len(responses[1]) = 1

----------------------------------------------------------------------------
(* Order of the steps of the handler *)

\* C38: in the handler the signature check precedes parsing and filtering:
\* the body of a delivery is JSON-parsed, and PR information extracted
\* from it, only after the check has returned true for it, which with a
\* secret configured means that the header equals the HMAC signature of
\* the raw bytes received; nothing is extracted from a body that was not
\* parsed, and nothing is scheduled without both.
C38_VerifiedBeforeParsed ==
    delivered > 0 =>
        /\ (handled.parsed \/ handled.extracted) =>
              /\ handled.verified = verifyGitHubSignature(webhookSecret, RawBody(req),
                                                          req.signature)
              /\ handled.verified.ret = "true"
              /\ Truthy(webhookSecret) =>
                    (handled.verified.hmac /\ LastSignatureMatches)
        /\ handled.extracted => handled.parsed
        /\ handled.scheduled > 0 => handled.extracted
        /\ handled.verified.ret # "true" =>
              /\ handled.prInfo = NoPRInfo
              /\ NotScheduled(delivered)

\* a forged delivery with a payload that would parse was turned away
\* unparsed, and a signed one was parsed and extracted
C38_Witness ==
    /\ delivered = 2
    /\ responses[1][1].status = 401
    /\ Truthy(webhookSecret)
    /\ handled.verified.hmac
    /\ handled.parsed
    /\ handled.extracted
    /\ handled.scheduled = 0

\* a forged delivery whose body is a complete payload is left unparsed
ForgedLeftUnparsed ==
    (/\ delivered > 0
     /\ Truthy(webhookSecret)
     /\ req.sent # "valid"
     /\ Extractable(LastPayload)) => (~handled.parsed /\ ~handled.extracted)

----------------------------------------------------------------------------
(* Visibility of the repository *)

\* the invocation for delivery d has run past the visibility test as an
\* invocation for a public repository does: it was not skipped, and it has
\* made the first call of its snapshot (the listing, or the post of the
\* acknowledgment)
ProcessedAsPublic(d) ==
    /\ tasks[d].outcome # "skipped"
    /\ tasks[d].pc # "scheduled" =>
          IF impl = "review" THEN calls[d].listing = 1 ELSE calls[d].post >= 1

\* C39: extractPRInfo sets isPublic to the negation of repository.private
\* (false for private: true, true for private: false and for a repository
\* object without the field), and a delivery without the field is
\* processed as one of a public repository is.
C39_MissingPrivateIsPublic ==
    (delivered = 1 /\ tasks[1].pc # "none") =>
        /\ tasks[1].prInfo.isPublic = (LastPayload.repository.private # "true")
        /\ handled.prInfo.isPublic = tasks[1].prInfo.isPublic
        /\ LastPayload.repository.private \in {"false", "<undefined>"} =>
              ProcessedAsPublic(1)
        /\ (LastPayload.repository.private = "true" /\ impl = "acknowledge"
               /\ tasks[1].pc # "scheduled") =>
              (tasks[1].outcome = "skipped" /\ calls[1] = NoCalls)

\* a PR of a repository without the private field was acknowledged by the
\* snapshot that skips private repositories
C39_Witness ==
    /\ delivered = 1
    /\ LastPayload.repository.present
    /\ LastPayload.repository.private = "<undefined>"
    /\ impl = "acknowledge"
    /\ tasks[1].outcome = "acknowledged"
    /\ comments[1] = <<"acknowledgment">>

----------------------------------------------------------------------------
(* Termination of processPR *)

============================================================================
